---- MODULE Spec2Model ----
(***************************************************************************)
(* gowaybackgo: the concurrent fetch / filter / dedup pipeline of          *)
(* Runner.Run, with the string functions it applies to every line.         *)
(*                                                                         *)
(* A string is a sequence of one-character strings.  Lines are written     *)
(* over the characters of Alphabet; the Go library functions (url.Parse,   *)
(* URL.String, package strings) are modelled for that alphabet.            *)
(***************************************************************************)
EXTENDS Integers, Sequences, FiniteSets, TLC

(***************************************************************************)
(* Bounds of the model.                                                    *)
(***************************************************************************)
\* capacity of the raw-line queue (2000 in the source, scaled down)
JobsCap == 1
\* capacity of the results queue (2000 in the source, scaled down)
ResultsCap == 1

\* const maxRetries
maxRetries == 3

(***************************************************************************)
(* Characters.                                                             *)
(***************************************************************************)
LowerLetters == {"a", "b", "c", "h", "k", "p", "x", "y"}
UpperLetters == {"A", "H", "P"}
Letters == LowerLetters \cup UpperLetters
Digits == {"0", "1", "2", "8"}
Alphabet == Letters \cup Digits \cup {":", "/", "?", "=", "&", ";", ".", " ", "-"}

\* unicode.ToLower on one character
LowerChar(c) ==
    CASE c = "A" -> "a"
      [] c = "H" -> "h"
      [] c = "P" -> "p"
      [] OTHER -> c

(***************************************************************************)
(* package strings                                                         *)
(***************************************************************************)
\* strings.ToLower
ToLower(s) == [i \in 1..Len(s) |-> LowerChar(s[i])]

\* strings.Index for a one-character separator: 1-based, 0 when absent
Index(s, c) ==
    IF \E i \in 1..Len(s) : s[i] = c
    THEN CHOOSE i \in 1..Len(s) : s[i] = c /\ \A j \in 1..(i - 1) : s[j] # c
    ELSE 0

\* strings.LastIndex for a one-character separator: 1-based, 0 when absent
LastIndex(s, c) ==
    IF \E i \in 1..Len(s) : s[i] = c
    THEN CHOOSE i \in 1..Len(s) : s[i] = c /\ \A j \in (i + 1)..Len(s) : s[j] # c
    ELSE 0

\* strings.IndexAny: first position of any character of cs, 0 when absent
IndexAny(s, cs) ==
    IF \E i \in 1..Len(s) : s[i] \in cs
    THEN CHOOSE i \in 1..Len(s) : s[i] \in cs /\ \A j \in 1..(i - 1) : s[j] \notin cs
    ELSE 0

\* strings.Contains for a one-character substring
Contains(s, c) == \E i \in 1..Len(s) : s[i] = c

\* strings.Count for a one-character substring
Count(s, c) == Cardinality({i \in 1..Len(s) : s[i] = c})

\* strings.HasPrefix
HasPrefix(s, pre) == Len(s) >= Len(pre) /\ SubSeq(s, 1, Len(pre)) = pre

\* strings.HasSuffix
HasSuffix(s, suf) ==
    Len(s) >= Len(suf) /\ SubSeq(s, Len(s) - Len(suf) + 1, Len(s)) = suf

\* strings.TrimPrefix
TrimPrefix(s, pre) == IF HasPrefix(s, pre) THEN SubSeq(s, Len(pre) + 1, Len(s)) ELSE s

\* strings.TrimSuffix
TrimSuffix(s, suf) == IF HasSuffix(s, suf) THEN SubSeq(s, 1, Len(s) - Len(suf)) ELSE s

\* strings.Trim(s, cutset): strips leading and trailing characters of cs
Trim(s, cs) ==
    IF \A i \in 1..Len(s) : s[i] \in cs
    THEN <<>>
    ELSE LET first == CHOOSE i \in 1..Len(s) :
                          s[i] \notin cs /\ \A j \in 1..(i - 1) : s[j] \in cs
             last == CHOOSE i \in 1..Len(s) :
                          s[i] \notin cs /\ \A j \in (i + 1)..Len(s) : s[j] \in cs
         IN  SubSeq(s, first, last)

\* strings.TrimSpace (the only white space of the alphabet is " ")
TrimSpace(s) == Trim(s, {" "})

\* strings.ReplaceAll(s, c, ""): drops every occurrence of the character c
RECURSIVE RemoveAll(_, _)
RemoveAll(s, c) ==
    IF s = <<>> THEN <<>>
    ELSE IF Head(s) = c THEN RemoveAll(Tail(s), c)
    ELSE <<Head(s)>> \o RemoveAll(Tail(s), c)

\* strings.Split(s, sep) for a one-character separator
RECURSIVE Split(_, _)
Split(s, c) ==
    LET i == Index(s, c)
    IN  IF i = 0 THEN <<s>>
        ELSE <<SubSeq(s, 1, i - 1)>> \o Split(SubSeq(s, i + 1, Len(s)), c)

\* the elements of a sequence
Range(s) == {s[i] : i \in 1..Len(s)}

(***************************************************************************)
(* package net/url, restricted to Alphabet (no "#", "%", "@", "[", "*").   *)
(***************************************************************************)
\* getScheme, the position where its scan stops: the first character that is
\* no letter and, past the first position, no digit, "+", "-" or "."; 0 when
\* the scan runs to the end
schemeStop(raw) ==
    IndexAny([i \in 1..Len(raw) |->
                 IF \/ raw[i] \notin (Letters \cup Digits \cup {"-", "."})
                    \/ (i = 1 /\ raw[i] \notin Letters)
                 THEN "stop" ELSE "go"],
             {"stop"})

\* getScheme, what it returns when its scan stops at i: [err, scheme, rest]
schemeAt(raw, i) ==
    IF i = 0 \/ raw[i] # ":" THEN [err |-> FALSE, scheme |-> <<>>, rest |-> raw]
    ELSE IF i = 1 THEN [err |-> TRUE, scheme |-> <<>>, rest |-> <<>>]
    ELSE [err |-> FALSE, scheme |-> SubSeq(raw, 1, i - 1),
          rest |-> SubSeq(raw, i + 1, Len(raw))]

\* getScheme: [err, scheme, rest]
getScheme(raw) == schemeAt(raw, schemeStop(raw))

\* validOptionalPort: "" or ":" followed by digits only
validOptionalPort(port) ==
    \/ port = <<>>
    \/ /\ port[1] = ":"
       /\ \A i \in 2..Len(port) : port[i] \in Digits

\* shouldEscape(c, encodeHost) for the characters of Alphabet
shouldEscapeHost(c) ==
    c \notin (Letters \cup Digits \cup {"&", ";", "=", ":", "-", "."})

\* shouldEscape(c, encodePath) for the characters of Alphabet
shouldEscapePath(c) ==
    c \notin (Letters \cup Digits \cup {"&", ";", "=", ":", "/", "-", "."})

\* parseHost (called by parseAuthority; no userinfo without "@"): [err, host]
parseHost(host) ==
    IF \/ /\ LastIndex(host, ":") # 0
          /\ ~validOptionalPort(SubSeq(host, LastIndex(host, ":"), Len(host)))
       \/ \E k \in 1..Len(host) : shouldEscapeHost(host[k])
    THEN [err |-> TRUE, host |-> <<>>]
    ELSE [err |-> FALSE, host |-> host]

\* the zero URL
EmptyURL ==
    [err |-> FALSE, Scheme |-> <<>>, Opaque |-> <<>>, Host |-> <<>>,
     Path |-> <<>>, RawQuery |-> <<>>, ForceQuery |-> FALSE, OmitHost |-> FALSE]

\* the result of a failed parse
ErrURL == [EmptyURL EXCEPT !.err = TRUE]

\* parse, the authority branch: a0 is what follows "//", i the position of
\* its first "/"
parseAuthorityAt(u0, a0, i, ph) ==
    IF ph.err THEN ErrURL
    ELSE [u0 EXCEPT !.Host = ph.host,
                    !.Path = IF i = 0 THEN <<>> ELSE SubSeq(a0, i, Len(a0))]

\* parse, the authority branch
parseAuthority(u0, a0, i) ==
    parseAuthorityAt(u0, a0, i, parseHost(IF i = 0 THEN a0 ELSE SubSeq(a0, 1, i - 1)))

\* parse, after the query is cut off: rest is what is left of the URL, u0
\* holds the scheme and the query
parseRest(u0, rest) ==
    IF ~HasPrefix(rest, <<"/">>) /\ u0.Scheme # <<>>
    THEN [u0 EXCEPT !.Opaque = rest]
    ELSE IF ~HasPrefix(rest, <<"/">>) /\ Contains(Head(Split(rest, "/")), ":")
    THEN ErrURL
    ELSE IF /\ HasPrefix(rest, <<"/", "/">>)
            /\ (u0.Scheme # <<>> \/ ~HasPrefix(rest, <<"/", "/", "/">>))
    THEN parseAuthority(u0, SubSeq(rest, 3, Len(rest)),
                        Index(SubSeq(rest, 3, Len(rest)), "/"))
    ELSE IF u0.Scheme # <<>> /\ HasPrefix(rest, <<"/">>)
    THEN [u0 EXCEPT !.OmitHost = TRUE, !.Path = rest]
    ELSE [u0 EXCEPT !.Path = rest]

\* parse, the cut at the query: a lone final "?" forces an empty query,
\* otherwise the first "?" starts the raw query
parseQuery(scheme, r0, force, q) ==
    parseRest([EmptyURL EXCEPT
                  !.Scheme = scheme,
                  !.RawQuery = IF force \/ q = 0 THEN <<>> ELSE SubSeq(r0, q + 1, Len(r0)),
                  !.ForceQuery = force],
              IF force THEN SubSeq(r0, 1, Len(r0) - 1)
              ELSE IF q = 0 THEN r0 ELSE SubSeq(r0, 1, q - 1))

\* parse, after getScheme
parseScheme(gs) ==
    IF gs.err THEN ErrURL
    ELSE parseQuery(ToLower(gs.scheme), gs.rest,
                    HasSuffix(gs.rest, <<"?">>) /\ Count(gs.rest, "?") = 1,
                    Index(gs.rest, "?"))

\* url.Parse (parse with viaRequest = false; no fragment without "#")
ParseURL(raw) == parseScheme(getScheme(raw))

\* the %XX form escape writes for a character
PercentHex(c) ==
    CASE c = " " -> <<"%", "2", "0">>
      [] c = "?" -> <<"%", "3", "F">>
      [] OTHER -> <<c>>

\* escape(s, encodePath): every character shouldEscape names becomes %XX
RECURSIVE EscapePath(_)
EscapePath(s) ==
    IF s = <<>> THEN <<>>
    ELSE (IF shouldEscapePath(Head(s)) THEN PercentHex(Head(s)) ELSE <<Head(s)>>)
         \o EscapePath(Tail(s))

\* URL.String, the "//" before the host
urlSlashes(u) ==
    IF u.Scheme = <<>> /\ u.Host = <<>> THEN <<>>
    ELSE IF u.OmitHost /\ u.Host = <<>> THEN <<>>
    ELSE IF u.Host # <<>> \/ u.Path # <<>> THEN <<"/", "/">>
    ELSE <<>>

\* URL.String, from the scheme to the path: front is what is written before
\* the path, path the escaped path
urlBody(u, front, path) ==
    front
    \o (IF path # <<>> /\ path[1] # "/" /\ u.Host # <<>> THEN <<"/">> ELSE <<>>)
    \o (IF u.Scheme = <<>> /\ front = <<>> /\ Contains(Head(Split(path, "/")), ":")
        THEN <<".", "/">> ELSE <<>>)
    \o path

\* URL.String
URLString(u) ==
    (IF u.Scheme # <<>> THEN u.Scheme \o <<":">> ELSE <<>>)
    \o (IF u.Opaque # <<>> THEN u.Opaque
        ELSE urlBody(u, urlSlashes(u) \o u.Host, EscapePath(u.Path)))
    \o (IF u.ForceQuery \/ u.RawQuery # <<>> THEN <<"?">> \o u.RawQuery ELSE <<>>)

(***************************************************************************)
(* main.go, config.go: the pattern and the base domain                     *)
(***************************************************************************)
\* normalizeURLForCDX(u, subs)
normalizeURLForCDX(u, subs) ==
    LET s0 == TrimSpace(u)
        s1 == TrimPrefix(TrimPrefix(s0, <<"h", "t", "t", "p", ":", "/", "/">>),
                         <<"h", "t", "t", "p", "s", ":", "/", "/">>)
        idx == IndexAny(s1, {"/", ":", "\\"})
        s2 == IF idx > 0 THEN SubSeq(s1, 1, idx - 1) ELSE s1
        s3 == Trim(RemoveAll(s2, "*"), {" ", "."})
    IN  IF subs THEN <<"*", ".">> \o s3
        ELSE IF ~Contains(u, "*") THEN s3 \o <<"*">>
        ELSE u

\* Config.NormalizeBaseDomain
NormalizeBaseDomain(c) ==
    Trim(TrimSuffix(TrimPrefix(normalizeURLForCDX(c.URLPattern, FALSE), <<"*", ".">>),
                    <<"*">>),
         {" ", "."})

(***************************************************************************)
(* Runner.processLine                                                      *)
(***************************************************************************)
\* extRegex.MatchString(path): the path ends in "." and one of the listed
\* extensions, compared without case
ExtMatch(exts, path) ==
    \E e \in exts : HasSuffix(ToLower(path), <<".">> \o ToLower(e))

\* the key of one pair: the part before its first "=", the whole pair
\* without one (url.QueryUnescape changes no string over Alphabet)
pairKey(pair) ==
    IF Index(pair, "=") > 0 THEN SubSeq(pair, 1, Index(pair, "=") - 1) ELSE pair

\* the keys of the pairs, empty keys skipped
RECURSIVE keysOf(_)
keysOf(pairs) ==
    IF pairs = <<>> THEN <<>>
    ELSE (IF pairKey(Head(pairs)) = <<>> THEN <<>> ELSE <<pairKey(Head(pairs))>>)
         \o keysOf(Tail(pairs))

\* strings.FieldsFunc(q, "&" or ";"): the maximal runs without a separator
RECURSIVE FieldsFunc(_)
FieldsFunc(q) ==
    IF q = <<>> THEN <<>>
    ELSE IF Head(q) \in {"&", ";"} THEN FieldsFunc(Tail(q))
    ELSE IF IndexAny(q, {"&", ";"}) = 0 THEN <<q>>
    ELSE <<SubSeq(q, 1, IndexAny(q, {"&", ";"}) - 1)>>
         \o FieldsFunc(SubSeq(q, IndexAny(q, {"&", ";"}) + 1, Len(q)))

\* processLine, the only-query-keys branch
QueryKeys(q) == keysOf(FieldsFunc(q))

\* a filter that treats every list as an exclude list
filteredOutExcludeOnly(c, path) == c.ExtList # {} /\ ExtMatch(c.ExtList, path)

\* processLine, the extension filter: the line is dropped
filteredOut(c, path) ==
    /\ c.ExtList # {}
    /\ \/ c.IncludeMode /\ ~ExtMatch(c.ExtList, path)
       \/ ~c.IncludeMode /\ ExtMatch(c.ExtList, path)

\* a processLine that tests only-query-keys before only-query
processParsedKeysFirst(c, line, u) ==
    IF filteredOut(c, IF ~u.err /\ u.Path # <<>> THEN u.Path ELSE line)
    THEN <<>>
    ELSE IF c.OnlyQueryKeys
    THEN IF ~u.err /\ u.RawQuery # <<>> THEN QueryKeys(u.RawQuery) ELSE <<>>
    ELSE IF c.OnlyQuery
    THEN IF ~u.err /\ u.RawQuery # <<>> THEN <<u.RawQuery>> ELSE <<>>
    ELSE IF c.NoQuery /\ ~u.err
    THEN <<URLString([u EXCEPT !.RawQuery = <<>>])>>
    ELSE <<line>>

\* processLine after url.Parse: line is trimmed and not empty, u its parse
processParsed(c, line, u) ==
    IF filteredOut(c, IF ~u.err /\ u.Path # <<>> THEN u.Path ELSE line)
    THEN <<>>
    ELSE IF c.OnlyQuery
    THEN IF ~u.err /\ u.RawQuery # <<>> THEN <<u.RawQuery>> ELSE <<>>
    ELSE IF c.OnlyQueryKeys
    THEN IF ~u.err /\ u.RawQuery # <<>> THEN QueryKeys(u.RawQuery) ELSE <<>>
    ELSE IF c.NoQuery /\ ~u.err
    THEN <<URLString([u EXCEPT !.RawQuery = <<>>])>>
    ELSE <<line>>

\* processLine after strings.TrimSpace
processTrimmed(c, line) ==
    IF line = <<>> THEN <<>> ELSE processParsed(c, line, ParseURL(line))

\* Runner.processLine: the Derived Values of one raw line, in order
processLine(c, raw) == processTrimmed(c, TrimSpace(raw))

(***************************************************************************)
(* The sink: what one received value adds to the output                    *)
(***************************************************************************)
\* the sink without its dedup map: every candidate is written
FreshNoDedup(vs, seen) == vs

\* the values of vs not in seen, each once, in order of first occurrence
Fresh(vs, seen) ==
    LET keep == {i \in 1..Len(vs) :
                    vs[i] \notin seen /\ \A j \in 1..(i - 1) : vs[j] # vs[i]}
    IN  [k \in 1..Cardinality(keep) |->
            vs[CHOOSE i \in keep : Cardinality({j \in keep : j <= i}) = k]]

\* printSubdomains, loop body: the host without its port, trimmed, lower-cased
hostKey(host) ==
    ToLower(TrimSpace(IF Index(host, ":") > 0
                      THEN SubSeq(host, 1, Index(host, ":") - 1) ELSE host))

\* a suffix test without the separating dot
strictSubdomainNoDot(host, baseLower) ==
    IF host = <<>> \/ host = baseLower THEN <<>>
    ELSE IF HasSuffix(host, baseLower) THEN <<host>>
    ELSE <<>>

\* printSubdomains, loop body: the host is kept when it is a strict subdomain
strictSubdomain(host, baseLower) ==
    IF host = <<>> \/ host = baseLower THEN <<>>
    ELSE IF HasSuffix(host, <<".">> \o baseLower) THEN <<host>>
    ELSE <<>>

\* printSubdomains, loop body, after url.Parse
subdomainParsed(u, baseDomain) ==
    IF u.err THEN <<>> ELSE strictSubdomain(hostKey(u.Host), ToLower(baseDomain))

\* printSubdomains, loop body: the candidate of one received value
subdomainOf(res, baseDomain) == subdomainParsed(ParseURL(res), baseDomain)

\* a segment loop that writes the segments as they are
nonEmptyTrimmedNot(segs) == segs

\* printPaths, loop body: the trimmed non-empty segments
RECURSIVE nonEmptyTrimmed(_)
nonEmptyTrimmed(segs) ==
    IF segs = <<>> THEN <<>>
    ELSE (IF TrimSpace(Head(segs)) = <<>> THEN <<>> ELSE <<TrimSpace(Head(segs))>>)
         \o nonEmptyTrimmed(Tail(segs))

\* printPaths, loop body, after url.Parse
pathParsed(u) ==
    IF u.err \/ u.Path = <<>> THEN <<>> ELSE nonEmptyTrimmed(Split(u.Path, "/"))

\* printPaths, loop body: the candidates of one received value
pathSegments(res) == pathParsed(ParseURL(res))

\* printSubdomains returns at once without a base domain
sinkIdle(c) == c.Subs /\ NormalizeBaseDomain(c) = <<>>

\* the candidates one received value gives the sink of the configured mode
\* (startPrinter's choice of printSubdomains, printPaths or printDefault)
sinkCandidates(c, res) ==
    IF c.Subs THEN subdomainOf(res, NormalizeBaseDomain(c))
    ELSE IF c.ExtractPaths THEN pathSegments(res)
    ELSE <<res>>

(***************************************************************************)
(* Runner.fetchPageCount                                                   *)
(***************************************************************************)
\* the decimal digits strconv accepts
DecDigits == {"0", "1", "2", "3", "4", "5", "6", "7", "8", "9"}

\* the value of a decimal digit
DigitVal(c) ==
    CASE c = "0" -> 0 [] c = "1" -> 1 [] c = "2" -> 2 [] c = "3" -> 3
      [] c = "4" -> 4 [] c = "5" -> 5 [] c = "6" -> 6 [] c = "7" -> 7
      [] c = "8" -> 8 [] c = "9" -> 9

\* the value of a digit string
RECURSIVE DecVal(_)
DecVal(ds) ==
    IF ds = <<>> THEN 0
    ELSE 10 * DecVal(SubSeq(ds, 1, Len(ds) - 1)) + DigitVal(ds[Len(ds)])

\* a digit string without its leading zeros
RECURSIVE stripZeros(_)
stripZeros(ds) ==
    IF ds # <<>> /\ Head(ds) = "0" THEN stripZeros(Tail(ds)) ELSE ds

\* the digits of the largest int, 1<<63 - 1 (an int has 64 bits)
MaxIntDigits ==
    <<"9", "2", "2", "3", "3", "7", "2", "0", "3", "6",
      "8", "5", "4", "7", "7", "5", "8", "0", "7">>

\* the digits of the magnitude of the smallest int, 1<<63
MinIntDigits == [MaxIntDigits EXCEPT ![Len(MaxIntDigits)] = "8"]

\* a > b as numbers, for digit strings of one length
RECURSIVE digitsAbove(_, _)
digitsAbove(a, b) ==
    IF a = <<>> THEN FALSE
    ELSE IF Head(a) # Head(b) THEN DigitVal(Head(a)) > DigitVal(Head(b))
    ELSE digitsAbove(Tail(a), Tail(b))

\* strconv's range error: the value does not fit an int
outOfRange(neg, ds) ==
    \/ Len(stripZeros(ds)) > Len(MaxIntDigits)
    \/ /\ Len(stripZeros(ds)) = Len(MaxIntDigits)
       /\ digitsAbove(stripZeros(ds),
                      IF neg THEN MinIntDigits ELSE MaxIntDigits)

\* strconv.Atoi: an optional sign and at least one digit, nothing else, and
\* a value that fits an int
Atoi(s) ==
    LET neg == Len(s) > 0 /\ s[1] = "-"
        ds == IF Len(s) > 0 /\ s[1] \in {"-", "+"} THEN Tail(s) ELSE s
    IN  IF ds = <<>> \/ \E i \in 1..Len(ds) : ds[i] \notin DecDigits
        THEN [err |-> TRUE, val |-> 0]
        ELSE IF outOfRange(neg, ds) THEN [err |-> TRUE, val |-> 0]
        ELSE [err |-> FALSE, val |-> IF neg THEN 0 - DecVal(ds) ELSE DecVal(ds)]

\* the first non-blank trimmed line of a body, "" when there is none
RECURSIVE firstNonBlank(_)
firstNonBlank(body) ==
    IF body = <<>> THEN <<>>
    ELSE IF TrimSpace(Head(body)) # <<>> THEN TrimSpace(Head(body))
    ELSE firstNonBlank(Tail(body))

\* a resolver that takes an empty answer for an unparsable one
fetchPageCountNoZero(body) ==
    IF Atoi(firstNonBlank(body)).err THEN 1 ELSE Atoi(firstNonBlank(body)).val

\* fetchPageCount after a completed request: the page count it returns
fetchPageCount(body) ==
    IF firstNonBlank(body) = <<>> THEN 0
    ELSE IF Atoi(firstNonBlank(body)).err THEN 1
    ELSE Atoi(firstNonBlank(body)).val

(***************************************************************************)
(* Inputs: configurations, the archive's answers                          *)
(***************************************************************************)
\* the pattern "b.c"
PatBC == <<"b", ".", "c">>
\* the pattern "*", whose base domain is empty
PatStar == <<"*">>

\* a Config as ParseConfig leaves it, with the compiled filter of NewRunner
DefaultCfg ==
    [URLPattern |-> PatBC, OutputFile |-> FALSE,
     OnlyQuery |-> FALSE, OnlyQueryKeys |-> FALSE, NoQuery |-> FALSE,
     ExtractPaths |-> FALSE, Subs |-> FALSE,
     ExtList |-> {}, IncludeMode |-> FALSE,
     Workers |-> 1, PageWorkers |-> 1]

\* the configurations of the pipeline runs: every output mode, one or two
\* workers per stage, with and without a file sink, and worker counts of
\* zero and below
Configs ==
    { [DefaultCfg EXCEPT !.PageWorkers = 2, !.OutputFile = TRUE],
      [DefaultCfg EXCEPT !.PageWorkers = 0, !.Workers = -1],
      [DefaultCfg EXCEPT !.PageWorkers = -1, !.Workers = 0],
      [DefaultCfg EXCEPT !.OnlyQuery = TRUE, !.Workers = 2],
      [DefaultCfg EXCEPT !.OnlyQueryKeys = TRUE, !.Workers = 2],
      [DefaultCfg EXCEPT !.NoQuery = TRUE, !.OutputFile = TRUE],
      [DefaultCfg EXCEPT !.ExtractPaths = TRUE, !.Workers = 2],
      [DefaultCfg EXCEPT !.Subs = TRUE, !.Workers = 2],
      [DefaultCfg EXCEPT !.Subs = TRUE, !.URLPattern = PatStar, !.OutputFile = TRUE] }

\* lines of the archive
LineA == <<"h", ":", "/", "/", "A", ".", "b", ".", "c", "/", "x", "?", "k", "=", "1">>
LineB == <<"h", ":", "/", "/", "a", ".", "b", ".", "c", "/", "x", "/", "y", "?",
           "k", "=", "2", "&", "p", "&", "=", "1", "&", "k">>
LineC == <<"h", ":", "/", "/", "b", ".", "c", "/", "y", "?", "k", "=", "1">>

\* the body the archive returns for page p (0-based), line by line
PageBodies ==
    << <<LineA, <<" ">>, LineB>>,
       <<LineC, <<" ">> \o LineA \o <<" ">> >> >>

\* the line "88888888888888888888", a number no int holds
TwentyEights == [i \in 1..20 |-> "8"]

\* the answers of the page-count endpoint: a transport failure, or a body
CountResponses ==
    { [err |-> TRUE, body |-> <<>>],
      [err |-> FALSE, body |-> <<>>],
      [err |-> FALSE, body |-> << <<>>, <<" ">> >>],
      [err |-> FALSE, body |-> << <<>>, <<" ", "2", " ">>, <<"8">> >>],
      [err |-> FALSE, body |-> << <<"x">> >>],
      [err |-> FALSE, body |-> << <<"-", "1">> >>],
      [err |-> FALSE, body |-> << <<"+", "1">> >>],
      [err |-> FALSE, body |-> << TwentyEights >> ] }

\* the outcomes of one client.Do: a 2xx response, a transport error without
\* a response, a response with another status, or an error that comes with
\* a response (a refused redirect)
Outcomes == {"ok", "err", "status", "errResp"}

\* the pattern "A.b.c", a base domain with an upper-case letter
PatABC == <<"A", ".", "b", ".", "c">>

\* the configurations of the sink on its own: subdomains (two base
\* domains), extract-paths, default
SinkConfigs ==
    { [DefaultCfg EXCEPT !.Subs = TRUE, !.OutputFile = TRUE],
      [DefaultCfg EXCEPT !.Subs = TRUE, !.URLPattern = PatABC],
      [DefaultCfg EXCEPT !.ExtractPaths = TRUE, !.OutputFile = TRUE],
      [DefaultCfg EXCEPT !.OutputFile = TRUE] }

\* values on the results queue: hosts with a port and upper-case letters,
\* the base domain itself, a host that ends with it without the dot, paths
\* with repeated, empty and padded segments, a value url.Parse rejects
SinkValues ==
    { <<"H", ":", "/", "/", "A", ".", "b", ".", "c", ":", "8", "/", "x", "/", "8", "/", "x", "/">>,
      <<"h", ":", "/", "/", "b", ".", "c", "/", "x">>,
      <<"h", ":", "/", "/", "x", "b", ".", "c", "/", "y">>,
      <<"h", ":", "/", "/", "k", ".", "b", ".", "c", "/", " ", "y", "/", "/", " ", "/", "k">>,
      <<"h", ":", "/", "/", "b", ".", "c", ":", "8", "/", "p">>,
      <<"h", ":", "/", "/", "a", " ", "b", ".", "c", "/", "x">>,
      <<"h", ":", "/", "/", "k", ".", "b", ".", "c">>,
      <<"h", ":", "/", "/", "x", ".", "A", ".", "b", ".", "c", "/", "k">> }

\* how many values wait on the results queue when the sink runs on its own
SinkFeed == 3

\* the contents of the results queue when the sink runs on its own
SinkInputs ==
    UNION {[1..n -> SinkValues] : n \in 0..SinkFeed}

(***************************************************************************)
(* State                                                                   *)
(***************************************************************************)
VARIABLES
    cfg,            \* Runner.cfg with the compiled filter
    resp,           \* the answer the page-count endpoint will give
    run,            \* Runner.Run: [pc, pages, p, err]; pc "panic" after a
                    \* run-time panic in Run itself
    pageJobs,       \* chan int: [buf, closed]
    jobs,           \* chan string of raw lines: [buf, closed]
    resultsCh,      \* chan string of derived values: [buf, closed]
    fetcher,        \* the page fetcher goroutines: [pc, page, attempt, late, ierr, idx]
    worker,         \* the line processor goroutines: [pc, outs]
    printer,        \* the printer goroutine: "idle", "start", "recv", "done"
    seen,           \* the printer's dedup map
    written,        \* the lines written and flushed to the sinks, in order
    pagesCompleted, \* the progress counter
    cancelled,      \* ctx.Err() != nil
    outFile,        \* r.outFile: "none", "open", "closed" (by closeOutput),
                    \* "saved" (flushed, closed and confirmed by finishOutput)
    hist,           \* history: what was enqueued, received, attempted, closed
    pl,             \* processLine applied to one line: [line, out, done]
    bufw            \* the printer's bufio.Writer: the lines not yet flushed

vars == <<cfg, resp, run, pageJobs, jobs, resultsCh, fetcher, worker, printer,
          seen, written, pagesCompleted, cancelled, outFile, hist, pl, bufw>>

\* the page indices the archive has bodies for
PageIdx == 0..(Len(PageBodies) - 1)

\* an open, empty channel
EmptyChan == [buf |-> <<>>, closed |-> FALSE]

\* startPageFetchers: pageConcurrency
NumFetchers == IF cfg.PageWorkers < 1 THEN 1 ELSE cfg.PageWorkers
\* startWorkers: workerCount
NumWorkers == IF cfg.Workers < 1 THEN 1 ELSE cfg.Workers

\* the non-blank trimmed lines of page p, as the scanner loop sends them
RECURSIVE nonBlankLines(_)
nonBlankLines(body) ==
    IF body = <<>> THEN <<>>
    ELSE (IF TrimSpace(Head(body)) = <<>> THEN <<>> ELSE <<TrimSpace(Head(body))>>)
         \o nonBlankLines(Tail(body))

\* the lines the scanner loop sends, page by page
PageLinesTable == [q \in PageIdx |-> nonBlankLines(PageBodies[q + 1])]

\* the lines the scanner loop sends for page q
PageLines(q) == PageLinesTable[q]

\* the bytes of a line that are not read when reading the body fails in the
\* middle of that line
CutLost == 5

\* what reading the body gives one sc.Scan(): the bytes asked for ("ok"), an
\* error at a line boundary or a line too long ("err"), an error in the
\* middle of the next line ("cut")
Reads == {"ok", "err", "cut"}

\* the token of sc.Scan() for line l, trimmed (line 170): the line, or, when
\* the read fails in the middle of it, the part that was read, which the
\* scanner hands out as a last line
scanToken(l, read) ==
    IF read = "cut" THEN TrimSpace(SubSeq(l, 1, Len(l) - CutLost)) ELSE l

\* every line a fetcher can send: the lines of the pages, whole or cut
PipelineLines ==
    UNION {{scanToken(l, read) : read \in {"ok", "cut"}} :
              l \in UNION {Range(PageLinesTable[q]) : q \in PageIdx}} \ {<<>>}

\* fetchPageCount, tabulated over the answers of the model
PageCountTable == [r \in CountResponses |-> fetchPageCount(r.body)]

\* processLine, tabulated over the configurations and lines of the pipeline
DerivedTable ==
    [c \in Configs |->
        [l \in PipelineLines |-> processLine(c, l)]]

\* the derived values that can reach the sink under configuration c
DerivedValues(c) == UNION {Range(DerivedTable[c][l]) : l \in DOMAIN DerivedTable[c]}

\* sinkCandidates, tabulated over the derived values of the pipeline
CandidateTable ==
    [c \in Configs \cup SinkConfigs |->
        [v \in (IF c \in Configs THEN DerivedValues(c) ELSE {})
                \cup (IF c \in SinkConfigs THEN SinkValues ELSE {}) |->
            sinkCandidates(c, v)]]

\* whether printSubdomains returns at once, per configuration
IdleTable == [c \in Configs |-> sinkIdle(c)]

NoHist ==
    [enq |-> [q \in PageIdx |-> 0],
     taken |-> [q \in PageIdx |-> <<>>],
     attempts |-> [q \in PageIdx |-> <<>>],
     nilOnly |-> [q \in PageIdx |-> FALSE],
     sent |-> [q \in PageIdx |-> 0],
     cut |-> [q \in PageIdx |-> FALSE],
     open |-> 0,
     badClose |-> FALSE,
     closes |-> <<>>,
     panicked |-> FALSE]

NoPl == [line |-> <<>>, out |-> <<>>, done |-> FALSE]

Init ==
    /\ cfg \in Configs
    /\ resp \in CountResponses
    /\ run = [pc |-> "start", pages |-> 0, p |-> 0, err |-> FALSE]
    /\ pageJobs = EmptyChan
    /\ jobs = EmptyChan
    /\ resultsCh = EmptyChan
    /\ fetcher = <<>>
    /\ worker = <<>>
    /\ printer = "idle"
    /\ seen = {}
    /\ written = <<>>
    /\ pagesCompleted = 0
    /\ cancelled = FALSE
    /\ outFile = IF cfg.OutputFile THEN "open" ELSE "none"
    /\ hist = NoHist
    /\ pl = NoPl
    /\ bufw = <<>>

(***************************************************************************)
(* Channels                                                                *)
(***************************************************************************)
\* a send can proceed: there is room, or the channel is closed (and the
\* send panics)
CanSend(ch, cap) == Len(ch.buf) < cap \/ ch.closed

\* ch <- v on a channel with room
Send(ch, v) == IF ch.closed THEN ch ELSE [ch EXCEPT !.buf = Append(@, v)]

\* <-ch on a channel that holds a value
Recv(ch) == [ch EXCEPT !.buf = Tail(@)]

\* close(ch)
Close(ch) == [ch EXCEPT !.closed = TRUE]

\* the history after a send on ch: a send on a closed channel panics
HistSend(h, ch) == IF ch.closed THEN [h EXCEPT !.panicked = TRUE] ELSE h

\* the history after close(ch): closing a closed channel panics
HistClose(h, ch, name) ==
    [h EXCEPT !.closes = Append(@, name), !.panicked = @ \/ ch.closed]

(***************************************************************************)
(* Runner.Run                                                              *)
(***************************************************************************)
\* closeOutput: the file, if any, is closed
closeFile(f) == IF f = "open" THEN "closed" ELSE f

\* finishOutput: with a file, flush, close and the confirmation on stdout
finishOutput(f) == IF f = "none" THEN f ELSE "saved"

\* a fetcher or worker goroutine as it is started
NewFetcher ==
    [pc |-> "recv", page |-> 0, attempt |-> 0, late |-> FALSE, ierr |-> FALSE, idx |-> 0,
     serr |-> FALSE]
NewWorker == [pc |-> "recv", outs |-> <<>>]

\* a resolver whose transport error is dropped
fetchPageCountErrNever(r, isCancelled) == FALSE

\* fetchPageCount returns an error: client.Do failed (as it does under a
\* cancelled ctx)
fetchPageCountErr(r, isCancelled) == r.err \/ isCancelled

\* make(chan int, size) panics at run time when size is negative
makeChanPanics(size) == size < 0

\* Run up to the enqueue loop: the page count, then either an early return or
\* the channels and the goroutines
RunStart ==
    /\ ~hist.panicked
    /\ run.pc = "start"
    /\ IF fetchPageCountErr(resp, cancelled)
       THEN /\ run' = [run EXCEPT !.pc = "returned", !.err = TRUE]
            /\ UNCHANGED <<fetcher, worker, printer, outFile, hist>>
       ELSE IF PageCountTable[resp] = 0
       THEN /\ run' = [run EXCEPT !.pc = "returned"]
            /\ outFile' = closeFile(outFile)
            /\ UNCHANGED <<fetcher, worker, printer, hist>>
       ELSE IF makeChanPanics(cfg.PageWorkers)
       THEN /\ run' = [run EXCEPT !.pc = "panic", !.pages = PageCountTable[resp]]
            /\ UNCHANGED <<fetcher, worker, printer, outFile, hist>>
       ELSE /\ run' = [run EXCEPT !.pc = "enqueue", !.pages = PageCountTable[resp]]
            /\ fetcher' = [i \in 1..NumFetchers |-> NewFetcher]
            /\ worker' = [j \in 1..NumWorkers |-> NewWorker]
            /\ printer' = "start"
            /\ UNCHANGED <<outFile, hist>>
    /\ UNCHANGED <<cfg, resp, pageJobs, jobs, resultsCh, seen, written,
                   pagesCompleted, cancelled, pl, bufw>>

\* a loop that steps over every other index
stepOverIndex(p) == p + 2

\* p++ of the enqueue loop
nextIndex(p) == p + 1

\* pageJobs <- p
RunEnqueue ==
    /\ ~hist.panicked
    /\ run.pc = "enqueue"
    /\ run.p < run.pages
    /\ CanSend(pageJobs, cfg.PageWorkers)
    /\ pageJobs' = Send(pageJobs, run.p)
    /\ hist' = [HistSend(hist, pageJobs) EXCEPT !.enq[run.p] = @ + 1]
    /\ run' = [run EXCEPT !.p = nextIndex(@)]
    /\ UNCHANGED <<cfg, resp, jobs, resultsCh, fetcher, worker, printer, seen,
                   written, pagesCompleted, cancelled, outFile, pl, bufw>>

\* close(pageJobs) after the loop
RunClosePageJobs ==
    /\ ~hist.panicked
    /\ run.pc = "enqueue"
    /\ run.p >= run.pages
    /\ pageJobs' = Close(pageJobs)
    /\ hist' = HistClose(hist, pageJobs, "pageJobs")
    /\ run' = [run EXCEPT !.pc = "waitFetch"]
    /\ UNCHANGED <<cfg, resp, jobs, resultsCh, fetcher, worker, printer, seen,
                   written, pagesCompleted, cancelled, outFile, pl, bufw>>

\* a Run that does not wait for the fetchers
FetchersNotAwaited == TRUE

\* fetchWg.Wait() returns
FetchersDone == \A i \in DOMAIN fetcher : fetcher[i].pc = "done"
\* workerWg.Wait() returns
WorkersDone == \A j \in DOMAIN worker : worker[j].pc = "done"

\* fetchWg.Wait(); close(jobs)
RunCloseJobs ==
    /\ ~hist.panicked
    /\ run.pc = "waitFetch"
    /\ FetchersDone
    /\ jobs' = Close(jobs)
    /\ hist' = HistClose(hist, jobs, "jobs")
    /\ run' = [run EXCEPT !.pc = "waitWorkers"]
    /\ UNCHANGED <<cfg, resp, pageJobs, resultsCh, fetcher, worker, printer, seen,
                   written, pagesCompleted, cancelled, outFile, pl, bufw>>

\* workerWg.Wait(); close(resultsCh)
RunCloseResults ==
    /\ ~hist.panicked
    /\ run.pc = "waitWorkers"
    /\ WorkersDone
    /\ resultsCh' = Close(resultsCh)
    /\ hist' = HistClose(hist, resultsCh, "resultsCh")
    /\ run' = [run EXCEPT !.pc = "waitPrint"]
    /\ UNCHANGED <<cfg, resp, pageJobs, jobs, fetcher, worker, printer, seen,
                   written, pagesCompleted, cancelled, outFile, pl, bufw>>

\* printWg.Wait(); pbar.Finish(); return nil
RunReturn ==
    /\ ~hist.panicked
    /\ run.pc = "waitPrint"
    /\ printer = "done"
    /\ run' = [run EXCEPT !.pc = "returned"]
    /\ UNCHANGED <<cfg, resp, pageJobs, jobs, resultsCh, fetcher, worker, printer,
                   seen, written, pagesCompleted, cancelled, outFile, hist, pl, bufw>>

\* the caller cancels ctx
Cancel ==
    /\ ~hist.panicked
    /\ ~cancelled
    /\ run.pc \notin {"returned", "panic"}
    /\ cancelled' = TRUE
    /\ UNCHANGED <<cfg, resp, run, pageJobs, jobs, resultsCh, fetcher, worker,
                   printer, seen, written, pagesCompleted, outFile, hist, pl, bufw>>

(***************************************************************************)
(* startPageFetchers, fetchWithRetry                                       *)
(***************************************************************************)
\* an abandoned page left out of the progress counter
countAbandonedNot(n) == n

\* atomic.AddInt32(pagesCompleted, 1) for an abandoned page
countAbandoned(n) == n + 1

\* atomic.AddInt32(pagesCompleted, 1) for a page whose body was scanned
countScanned(n) == n + 1

\* the fetcher that received page q from pageJobs: it builds the page URL
\* and has the ctx check before it
afterTake(f, q) == [f EXCEPT !.pc = "check", !.page = q]

\* the fetcher after "if ctx.Err() != nil { return }": it returns, or goes
\* to the first attempt at its page
afterCheck(f, isCancelled) ==
    IF isCancelled THEN [f EXCEPT !.pc = "done"]
    ELSE [f EXCEPT !.pc = "attempt", !.attempt = 1]

\* Run's "pageJobs <- p" meets a waiting receiver on the unbuffered channel
\* that make(chan int, 0) gives
Rendezvous ==
    /\ cfg.PageWorkers = 0
    /\ run.pc = "enqueue"
    /\ run.p < run.pages

\* for p := range pageJobs; on an unbuffered channel the receive completes
\* Run's send
FetcherRecv(i) ==
    /\ ~hist.panicked
    /\ fetcher[i].pc = "recv"
    /\ \/ /\ pageJobs.buf # <<>>
          /\ pageJobs' = Recv(pageJobs)
          /\ hist' = [hist EXCEPT !.taken[Head(pageJobs.buf)] = Append(@, i)]
          /\ fetcher' = [fetcher EXCEPT ![i] = afterTake(@, Head(pageJobs.buf))]
          /\ UNCHANGED run
       \/ /\ Rendezvous
          /\ run' = [run EXCEPT !.p = nextIndex(@)]
          /\ hist' = [hist EXCEPT !.enq[run.p] = @ + 1, !.taken[run.p] = Append(@, i)]
          /\ fetcher' = [fetcher EXCEPT ![i] = afterTake(@, run.p)]
          /\ UNCHANGED pageJobs
       \/ /\ pageJobs.buf = <<>>
          /\ pageJobs.closed
          /\ fetcher' = [fetcher EXCEPT ![i].pc = "done"]
          /\ UNCHANGED <<pageJobs, hist, run>>
    /\ UNCHANGED <<cfg, resp, jobs, resultsCh, worker, printer, seen, written,
                   pagesCompleted, cancelled, outFile, pl, bufw>>

\* if ctx.Err() != nil { return }, a step of its own after the receive: ctx
\* can be cancelled between the two
FetcherCheck(i) ==
    /\ ~hist.panicked
    /\ fetcher[i].pc = "check"
    /\ fetcher' = [fetcher EXCEPT ![i] = afterCheck(@, cancelled)]
    /\ UNCHANGED <<cfg, resp, run, pageJobs, jobs, resultsCh, worker, printer, seen,
                   written, pagesCompleted, cancelled, outFile, hist, pl, bufw>>

\* a backoff of one second after every attempt
sleepUnitsConstant(attempt) == 1

\* time.Duration(attempt) * time.Second, in seconds
sleepUnits(attempt) == attempt

\* the history with one more response body open
openBody(h) == [h EXCEPT !.open = @ + 1]

\* Body.Close(): one open body less; badClose when none is open
closeBody(h) ==
    IF h.open > 0 THEN [h EXCEPT !.open = @ - 1] ELSE [h EXCEPT !.badClose = TRUE]

\* Body.Close() on a body that is closed already
closeAgain(h) == [h EXCEPT !.badClose = TRUE]

\* the history after client.Do returned o: a response comes with every
\* outcome but "err", and the retry loop closes the body of one it does not
\* return; the body of a response that comes with an error was closed by
\* the client before, and the retry loop closes it once more
afterDo(h, o) ==
    IF o = "err" THEN h
    ELSE IF o = "ok" THEN openBody(h)
    ELSE IF o = "status" THEN closeBody(openBody(h))
    ELSE closeAgain(closeBody(openBody(h)))

\* one pass of the retry loop up to its sleep: client.Do and its outcome
\* (a request with a cancelled context fails), the body closed after a
\* failure, sleep records the seconds of the time.Sleep that follows
FetcherAttempt(i) ==
    /\ ~hist.panicked
    /\ fetcher[i].pc = "attempt"
    /\ \E o \in Outcomes :
         /\ cancelled => o = "err"
         /\ hist' = [afterDo(hist, o) EXCEPT !.attempts[fetcher[i].page] =
                        Append(@, [by |-> i, ok |-> o = "ok", late |-> fetcher[i].late,
                                   sleep |-> IF o = "ok" THEN 0
                                             ELSE sleepUnits(fetcher[i].attempt)])]
         /\ fetcher' = [fetcher EXCEPT ![i] =
                          IF o = "ok"
                          THEN [@ EXCEPT !.pc = "scan", !.idx = 1, !.ierr = FALSE]
                          ELSE [@ EXCEPT !.pc = "sleep", !.ierr = (o \in {"err", "errResp"})]]
    /\ UNCHANGED <<cfg, resp, run, pageJobs, jobs, resultsCh, worker, printer, seen,
                   written, pagesCompleted, cancelled, outFile, pl, bufw>>

\* a retry loop with one pass too many
retryAgainOneMore(attempt) == attempt <= maxRetries

\* the retry loop goes on after a failed attempt
retryAgain(attempt) == attempt < maxRetries

\* the next pass of the retry loop begins, whatever ctx says; late records
\* that ctx was cancelled by then
nextAttempt(f, isCancelled) ==
    [f EXCEPT !.pc = "attempt", !.attempt = @ + 1, !.late = isCancelled]

\* the fetcher after it abandoned a page: continue, back to the range loop
afterAbandon(f) == NewFetcher

\* a caller that looks at the error only
abandonsOnErrOnly(ierr, respNil) == ierr

\* the caller's test on what fetchWithRetry returned: the page is abandoned
abandons(ierr, respNil) == ierr \/ respNil

\* time.Sleep after a failed attempt, then the next attempt, or the return of
\* (nil, ierr) and the caller's test: the page is abandoned, or its response
\* goes to the scanner
FetcherSleep(i) ==
    /\ ~hist.panicked
    /\ fetcher[i].pc = "sleep"
    /\ IF retryAgain(fetcher[i].attempt)
       THEN /\ fetcher' = [fetcher EXCEPT ![i] = nextAttempt(@, cancelled)]
            /\ UNCHANGED <<pagesCompleted, hist>>
       ELSE IF abandons(fetcher[i].ierr, TRUE)
       THEN /\ fetcher' = [fetcher EXCEPT ![i] = afterAbandon(@)]
            /\ pagesCompleted' = countAbandoned(pagesCompleted)
            /\ hist' = [hist EXCEPT !.nilOnly[fetcher[i].page] = ~fetcher[i].ierr]
       ELSE /\ fetcher' = [fetcher EXCEPT ![i] = [@ EXCEPT !.pc = "scan", !.idx = 1]]
            /\ UNCHANGED <<pagesCompleted, hist>>
    /\ UNCHANGED <<cfg, resp, run, pageJobs, jobs, resultsCh, worker, printer, seen,
                   written, cancelled, outFile, pl, bufw>>

\* sc.Scan() returns true with a token for one of the n lines of the body:
\* not after the last line and not when the read failed at a line boundary;
\* a read that fails in the middle of a line still gives a token, and the
\* error only ends the next sc.Scan()
moreLines(idx, n, read) == idx <= n /\ read \in {"ok", "cut"}

\* what sc.Scan() sees of the body: the error once the scanner holds one
readOf(f, read) == IF f.serr THEN "err" ELSE read

\* the token fetcher f got from sc.Scan() and is about to send: its line,
\* or what was read of it when the scanner holds the error of that read
held(f) == scanToken(PageLines(f.page)[f.idx], IF f.serr THEN "cut" ELSE "ok")

\* sc.Scan() of fetcher i under the read outcome read, up to the next wait:
\* with a non-blank token the fetcher stands at "jobs <- line"; when
\* sc.Scan() returns false, after the last line or with sc.Err() set (a
\* warning), the body is closed and the page counted
ScanPass(i, read) ==
    /\ ~hist.panicked
    /\ fetcher[i].pc = "scan"
    /\ IF /\ moreLines(fetcher[i].idx, Len(PageLines(fetcher[i].page)), read)
          /\ scanToken(PageLines(fetcher[i].page)[fetcher[i].idx], read) # <<>>
       THEN /\ fetcher' = [fetcher EXCEPT ![i].pc = "send", ![i].serr = (read = "cut")]
            /\ UNCHANGED <<pagesCompleted, hist>>
       ELSE /\ pagesCompleted' = countScanned(pagesCompleted)
            /\ hist' = closeBody(hist)
            /\ fetcher' = [fetcher EXCEPT ![i] = NewFetcher]
    /\ UNCHANGED <<cfg, resp, run, pageJobs, jobs, resultsCh, worker, printer, seen,
                   written, cancelled, outFile, pl, bufw>>

\* jobs <- line: the token goes to jobs, blocking while jobs is full, and
\* the loop is back at sc.Scan()
FetcherSend(i) ==
    /\ ~hist.panicked
    /\ fetcher[i].pc = "send"
    /\ CanSend(jobs, JobsCap)
    /\ jobs' = Send(jobs, held(fetcher[i]))
    /\ hist' = [HistSend(hist, jobs) EXCEPT
                   !.sent[fetcher[i].page] = @ + 1,
                   !.cut[fetcher[i].page] = fetcher[i].serr]
    /\ fetcher' = [fetcher EXCEPT ![i].pc = "scan", ![i].idx = @ + 1]
    /\ UNCHANGED <<cfg, resp, run, pageJobs, resultsCh, worker, printer, seen,
                   written, pagesCompleted, cancelled, outFile, pl, bufw>>

\* the scanner loop of fetcher i, whatever reading the body gives
FetcherScan(i) == \E read \in Reads : ScanPass(i, readOf(fetcher[i], read))

(***************************************************************************)
(* startWorkers                                                            *)
(***************************************************************************)
\* a worker with the values outs still to send
holding(outs) == [pc |-> IF outs = <<>> THEN "recv" ELSE "send", outs |-> outs]

\* for line := range jobs: the line's derived values are computed
WorkerRecv(j) ==
    /\ ~hist.panicked
    /\ worker[j].pc = "recv"
    /\ \/ /\ jobs.buf # <<>>
          /\ worker' = [worker EXCEPT ![j] = holding(DerivedTable[cfg][Head(jobs.buf)])]
          /\ jobs' = Recv(jobs)
       \/ /\ jobs.buf = <<>>
          /\ jobs.closed
          /\ worker' = [worker EXCEPT ![j].pc = "done"]
          /\ UNCHANGED jobs
    /\ UNCHANGED <<cfg, resp, run, pageJobs, resultsCh, fetcher, printer, seen,
                   written, pagesCompleted, cancelled, outFile, hist, pl, bufw>>

\* resultsCh <- processed
WorkerSend(j) ==
    /\ ~hist.panicked
    /\ worker[j].pc = "send"
    /\ CanSend(resultsCh, ResultsCap)
    /\ resultsCh' = Send(resultsCh, Head(worker[j].outs))
    /\ hist' = HistSend(hist, resultsCh)
    /\ worker' = [worker EXCEPT ![j] = holding(Tail(@.outs))]
    /\ UNCHANGED <<cfg, resp, run, pageJobs, jobs, fetcher, printer, seen, written,
                   pagesCompleted, cancelled, outFile, pl, bufw>>

(***************************************************************************)
(* startPrinter, printSubdomains, printPaths, printDefault                 *)
(***************************************************************************)
\* the printer goroutine starts and picks its loop
PrinterStart ==
    /\ ~hist.panicked
    /\ printer = "start"
    /\ printer' = IF IdleTable[cfg] THEN "done" ELSE "recv"
    /\ UNCHANGED <<cfg, resp, run, pageJobs, jobs, resultsCh, fetcher, worker, seen,
                   written, pagesCompleted, cancelled, outFile, hist, pl, bufw>>

\* a Flush that leaves the lines in the buffer
FlushNothing(w) == w

\* bufw.Flush(): the buffered lines reach the sinks; w is [out, buf]
Flush(w) == [out |-> w.out \o w.buf, buf |-> <<>>]

\* writeWithProgress: the value is written to bufw as a line, bufw flushed
writeWithProgress(w, value) == Flush([w EXCEPT !.buf = Append(@, value)])

\* writeWithProgress for the values vs, one after the other
RECURSIVE writeEach(_, _)
writeEach(w, vs) ==
    IF vs = <<>> THEN w ELSE writeEach(writeWithProgress(w, Head(vs)), Tail(vs))

\* the sinks and the buffer after the printer received res
afterReceive(res) ==
    writeEach([out |-> written, buf |-> bufw], Fresh(CandidateTable[cfg][res], seen))

\* for res := range resultsCh: one value is received, and what survives the
\* dedup is written and flushed (writeWithProgress)
PrinterRecv ==
    /\ ~hist.panicked
    /\ printer = "recv"
    /\ resultsCh.buf # <<>>
    /\ written' = afterReceive(Head(resultsCh.buf)).out
    /\ bufw' = afterReceive(Head(resultsCh.buf)).buf
    /\ seen' = seen \cup Range(CandidateTable[cfg][Head(resultsCh.buf)])
    /\ resultsCh' = Recv(resultsCh)
    /\ UNCHANGED <<cfg, resp, run, pageJobs, jobs, fetcher, worker, printer,
                   pagesCompleted, cancelled, outFile, hist, pl>>

\* the sinks and the buffer after finishOutput: bufw is flushed when there
\* is a file
afterFinish ==
    IF outFile = "none" THEN [out |-> written, buf |-> bufw]
    ELSE Flush([out |-> written, buf |-> bufw])

\* the range loop ends on the closed, drained channel: finishOutput
PrinterFinish ==
    /\ ~hist.panicked
    /\ printer = "recv"
    /\ resultsCh.buf = <<>>
    /\ resultsCh.closed
    /\ printer' = "done"
    /\ written' = afterFinish.out
    /\ bufw' = afterFinish.buf
    /\ outFile' = finishOutput(outFile)
    /\ UNCHANGED <<cfg, resp, run, pageJobs, jobs, resultsCh, fetcher, worker, seen,
                   pagesCompleted, cancelled, hist, pl>>

(***************************************************************************)
(* The pipeline                                                            *)
(***************************************************************************)
\* the program as main runs it: ctx is context.Background(), never cancelled
Next ==
    \/ RunStart
    \/ RunEnqueue
    \/ RunClosePageJobs
    \/ RunCloseJobs
    \/ RunCloseResults
    \/ RunReturn
    \/ \E i \in DOMAIN fetcher : FetcherRecv(i)
    \/ \E i \in DOMAIN fetcher : FetcherCheck(i)
    \/ \E i \in DOMAIN fetcher : FetcherAttempt(i)
    \/ \E i \in DOMAIN fetcher : FetcherSleep(i)
    \/ \E i \in DOMAIN fetcher : FetcherScan(i)
    \/ \E i \in DOMAIN fetcher : FetcherSend(i)
    \/ \E j \in DOMAIN worker : WorkerRecv(j)
    \/ \E j \in DOMAIN worker : WorkerSend(j)
    \/ PrinterStart
    \/ PrinterRecv
    \/ PrinterFinish

Spec == Init /\ [][Next]_vars

\* Run under a context its caller may cancel at any moment
NextCancel ==
    \/ Next
    \/ Cancel

SpecCancel == Init /\ [][NextCancel]_vars

\* the goroutine indices any configuration of Configs uses
GoIds == {1, 2}

\* the Go scheduler runs every goroutine that can take a step; no read of
\* a body has to fail
Fairness ==
    /\ WF_vars(RunStart \/ RunEnqueue \/ RunClosePageJobs \/ RunCloseJobs
               \/ RunCloseResults \/ RunReturn)
    /\ \A i \in GoIds : WF_vars(i \in DOMAIN fetcher /\
            (FetcherRecv(i) \/ FetcherCheck(i) \/ FetcherAttempt(i) \/ FetcherSleep(i)
                \/ ScanPass(i, readOf(fetcher[i], "ok")) \/ FetcherSend(i)))
    /\ \A j \in GoIds : WF_vars(j \in DOMAIN worker /\ (WorkerRecv(j) \/ WorkerSend(j)))
    /\ WF_vars(PrinterStart \/ PrinterRecv \/ PrinterFinish)

FairSpec == Init /\ [][Next]_vars /\ Fairness

(***************************************************************************)
(* processLine on its own: one line, one configuration                     *)
(***************************************************************************)
\* raw lines: URLs with and without scheme, host, port, query; opaque and
\* relative forms; lines url.Parse rejects
Lines ==
    { LineA, LineB, LineC,
      <<" ">> \o LineA \o <<" ">>,
      <<" ", " ">>,
      <<"H", ":", "/", "/", "a", ".", "b", ":", "8", "/", "x", " ", "y", "?", "k">>,
      <<"h", ":", "/", "/", "a", ".", "b", "/", "x", "?">>,
      <<"h", ":", "/", "/", "a", ".", "b">>,
      <<"h", ":", "/", "x", "?", "a", "?">>,
      <<"h", ":", "x", "?", "k", "=", "1", ";", "p", "=", "2">>,
      <<"/", "/", "a", ".", "b", "/", "x", "/", "/", "y", ".", "p", "h", "p">>,
      <<"a", ".", "b", "/", "x", ".", "P", "H", "P", "?", "&", "=", "1", "&", "k">>,
      <<"/", "a", ":", "b", "?">>,
      <<":", "/", "/", "a", ".", "b", "/", "x", "?", "k", "=", "1">>,
      <<"1", ":", "b", "?", "k">>,
      <<"h", ":", "/", "/", "a", " ", "b", "/", "x">>,
      <<"h", ":", "/", "/", "a", ".", "b", ":", "x", "/", "y", "?", "k">> }

\* the extension "php"
ExtPhp == <<"p", "h", "p">>

\* the configurations of processLine: every combination of the three query
\* flags, without filter, with an include list, with an exclude list
LineConfigs ==
    { [DefaultCfg EXCEPT !.OnlyQuery = f[1], !.OnlyQueryKeys = f[2], !.NoQuery = f[3],
                         !.ExtList = e[1], !.IncludeMode = e[2]] :
        f \in BOOLEAN \X BOOLEAN \X BOOLEAN,
        e \in {<<{}, FALSE>>, <<{ExtPhp}, TRUE>>, <<{ExtPhp}, FALSE>>} }

InitLine ==
    /\ cfg \in LineConfigs
    /\ resp = [err |-> FALSE, body |-> <<>>]
    /\ run = [pc |-> "start", pages |-> 0, p |-> 0, err |-> FALSE]
    /\ pageJobs = EmptyChan
    /\ jobs = EmptyChan
    /\ resultsCh = EmptyChan
    /\ fetcher = <<>>
    /\ worker = <<>>
    /\ printer = "idle"
    /\ seen = {}
    /\ written = <<>>
    /\ pagesCompleted = 0
    /\ cancelled = FALSE
    /\ outFile = "none"
    /\ hist = NoHist
    /\ \E l \in Lines : pl = [line |-> l, out |-> <<>>, done |-> FALSE]
    /\ bufw = <<>>

\* r.processLine(line)
ProcessLine ==
    /\ ~pl.done
    /\ pl' = [pl EXCEPT !.out = processLine(cfg, pl.line), !.done = TRUE]
    /\ UNCHANGED <<cfg, resp, run, pageJobs, jobs, resultsCh, fetcher, worker,
                   printer, seen, written, pagesCompleted, cancelled, outFile, hist,
                   bufw>>

NextLine == ProcessLine

SpecLine == InitLine /\ [][NextLine]_vars

(***************************************************************************)
(* NewRunner on its own: the command line's extension flags, then the      *)
(* Runner's matcher and mode                                               *)
(***************************************************************************)
\* const defaultExclude
defaultExclude ==
    <<
       "j", "s", ",", "c", "s", "s", ",", "p", "n", "g", ",", "j", "p", "g", ",", "j", "p", "e", "g", ",",
       "g", "i", "f", ",", "s", "v", "g", ",", "w", "e", "b", "p", ",", "i", "c", "o", ",", "b", "m", "p", ",",
       "t", "i", "f", ",", "t", "i", "f", "f", ",", "w", "o", "f", "f", ",", "w", "o", "f", "f", "2", ",", "t", "t", "f", ",",
       "e", "o", "t", ",", "m", "p", "4", ",", "m", "p", "3", ",", "w", "a", "v", ",", "a", "v", "i", ",",
       "m", "o", "v", ",", "m", "k", "v", ",", "z", "i", "p", ",", "r", "a", "r", ",", "7", "z", ",",
       "p", "d", "f" >>

\* the texts given to -exclude-ext and -include-ext: nothing, one extension,
\* a list with an empty token, a list with a blank before a token
ExtTexts ==
    { <<>>,
      <<"p", "h", "p">>,
      <<"x", ",", ",", "p", "h", "p">>,
      <<"x", ",", " ", "k">> }

\* the command lines: ExcludeProvided says that -exclude-ext was passed
\* (flag.Visit), and without it ExcludeExt is the flag's default ""
FlagConfigs ==
    { [URLPattern |-> PatBC, OutputFile |-> o,
       OnlyQuery |-> FALSE, OnlyQueryKeys |-> FALSE, NoQuery |-> FALSE,
       ExtractPaths |-> FALSE, Subs |-> FALSE,
       ExtList |-> {}, IncludeMode |-> FALSE,
       Workers |-> 1, PageWorkers |-> 1,
       ExcludeDefaults |-> d, ExcludeProvided |-> e[1], ExcludeExt |-> e[2],
       IncludeExt |-> i] :
        o \in BOOLEAN, d \in BOOLEAN,
        e \in {<<FALSE, <<>> >>} \cup ({TRUE} \X ExtTexts),
        i \in ExtTexts }

\* an EffectiveExclude that takes the value of -exclude-ext as it is given
EffectiveExcludeAsGiven(c) ==
    IF c.ExcludeDefaults THEN defaultExclude ELSE c.ExcludeExt

\* Config.EffectiveExclude, its first result
EffectiveExclude(c) ==
    IF c.ExcludeDefaults THEN defaultExclude
    ELSE IF ~c.ExcludeProvided THEN <<>>
    ELSE IF c.ExcludeExt = <<>> THEN defaultExclude
    ELSE c.ExcludeExt

\* the extensions of a comma-separated list: tokens trimmed, empty ones
\* ignored
ExtTokens(text) == {TrimSpace(t) : t \in Range(Split(text, ","))} \ {<<>>}

\* CompileExtRegex(include, exclude): the extensions of the matcher and
\* includeMode; no extensions, no matcher; the matcher of a list of tokens
\* compiles, so err is not set
CompileExtRegex(include, exclude) ==
    IF ExtTokens(include) # {}
    THEN [exts |-> ExtTokens(include), includeMode |-> TRUE, err |-> FALSE]
    ELSE [exts |-> ExtTokens(exclude), includeMode |-> FALSE, err |-> FALSE]

InitCfg ==
    /\ cfg \in FlagConfigs
    /\ resp = [err |-> FALSE, body |-> <<>>]
    /\ run = [pc |-> "new", pages |-> 0, p |-> 0, err |-> FALSE]
    /\ pageJobs = EmptyChan
    /\ jobs = EmptyChan
    /\ resultsCh = EmptyChan
    /\ fetcher = <<>>
    /\ worker = <<>>
    /\ printer = "idle"
    /\ seen = {}
    /\ written = <<>>
    /\ pagesCompleted = 0
    /\ cancelled = FALSE
    /\ outFile = "none"
    /\ hist = NoHist
    /\ pl = NoPl
    /\ bufw = <<>>

\* NewRunner: the matcher and its mode from the flags, and the output file
\* created when one is configured; when the matcher does not compile or
\* os.Create fails (created is its outcome) NewRunner returns the error, no
\* Runner exists and main exits without calling Run
NewRunner ==
    /\ run.pc = "new"
    /\ \E created \in BOOLEAN :
         IF \/ CompileExtRegex(cfg.IncludeExt, EffectiveExclude(cfg)).err
            \/ cfg.OutputFile /\ ~created
         THEN /\ run' = [run EXCEPT !.pc = "failed"]
              /\ UNCHANGED <<cfg, outFile>>
         ELSE /\ cfg' = [cfg EXCEPT
                 !.ExtList = CompileExtRegex(cfg.IncludeExt, EffectiveExclude(cfg)).exts,
                 !.IncludeMode =
                     CompileExtRegex(cfg.IncludeExt, EffectiveExclude(cfg)).includeMode]
              /\ outFile' = IF cfg.OutputFile THEN "open" ELSE "none"
              /\ run' = [run EXCEPT !.pc = "start"]
    /\ UNCHANGED <<resp, pageJobs, jobs, resultsCh, fetcher, worker, printer, seen,
                   written, pagesCompleted, cancelled, hist, pl, bufw>>

SpecCfg == InitCfg /\ [][NewRunner]_vars

(***************************************************************************)
(* The sink on its own: the fetchers and workers of a one-page run have    *)
(* exited, Run has closed the queues and waits for the printer, and the    *)
(* derived values wait on the closed results queue                         *)
(***************************************************************************)
InitSink ==
    /\ cfg \in SinkConfigs
    /\ resp = [err |-> FALSE, body |-> << <<"1">> >>]
    /\ run = [pc |-> "waitPrint", pages |-> 1, p |-> 1, err |-> FALSE]
    /\ pageJobs = Close(EmptyChan)
    /\ jobs = Close(EmptyChan)
    /\ \E in \in SinkInputs : resultsCh = [buf |-> in, closed |-> TRUE]
    /\ fetcher = <<[NewFetcher EXCEPT !.pc = "done"]>>
    /\ worker = <<[NewWorker EXCEPT !.pc = "done"]>>
    /\ printer = "recv"
    /\ seen = {}
    /\ written = <<>>
    /\ pagesCompleted = 1
    /\ cancelled = FALSE
    /\ outFile = IF cfg.OutputFile THEN "open" ELSE "none"
    /\ hist = [NoHist EXCEPT !.enq[0] = 1, !.taken[0] = <<1>>,
                             !.attempts[0] = <<[by |-> 1, ok |-> TRUE, late |-> FALSE,
                                                 sleep |-> 0]>>,
                             !.sent[0] = Len(PageLines(0)),
                             !.closes = <<"pageJobs", "jobs", "resultsCh">>]
    /\ pl = NoPl
    /\ bufw = <<>>

NextSink ==
    \/ PrinterRecv
    \/ PrinterFinish
    \/ RunReturn

SpecSink == InitSink /\ [][NextSink]_vars

(***************************************************************************)
(* Properties                                                              *)
(***************************************************************************)
\* page q was attempted and its last attempt succeeded
PageOk(q) ==
    hist.attempts[q] # <<>> /\ hist.attempts[q][Len(hist.attempts[q])].ok

\* page q was attempted maxRetries times without success
PageAbandoned(q) ==
    /\ Len(hist.attempts[q]) >= maxRetries
    /\ \A k \in 1..Len(hist.attempts[q]) : ~hist.attempts[q][k].ok

\* Run returned nil after running the pipeline
Completed == run.pc = "returned" /\ ~run.err /\ run.pages # 0

\* C1: in every output mode the sink writes no value twice: the written
\* values (exact strings, path segments, lower-cased hosts) are pairwise
\* different
C1_NoValueTwice ==
    \A a, b \in 1..Len(written) : a # b => written[a] # written[b]

\* C1 witness: a default-mode run over both pages returned; LineA came twice
\* (page 0 and page 1) and was written once
C1_Witness ==
    /\ Completed
    /\ ~cfg.Subs /\ ~cfg.ExtractPaths /\ ~cfg.OnlyQuery /\ ~cfg.OnlyQueryKeys /\ ~cfg.NoQuery
    /\ PageOk(0) /\ PageOk(1)
    /\ Len(written) = 3
    /\ LineA \in Range(written)

\* C2: when Run returns from a run over N > 0 pages, the progress counter is
\* N, whichever pages were abandoned
C2_CounterReachesTotal ==
    run.pc = "returned" /\ run.pages > 0 => pagesCompleted = run.pages

\* C2 witness: a run over two pages returned, one page abandoned, one fetched
C2_Witness ==
    /\ Completed
    /\ run.pages = 2
    /\ \E q, r \in PageIdx : PageAbandoned(q) /\ PageOk(r)
    /\ pagesCompleted = 2

\* what the sink has to write for the pages: the candidates of every
\* derived value of their lines (nothing when the sink is idle)
ExpectedTable ==
    [c \in Configs |-> [q \in PageIdx |->
        IF sinkIdle(c) THEN {}
        ELSE UNION {Range(sinkCandidates(c, v)) :
                       v \in UNION {Range(processLine(c, l)) : l \in Range(PageLines(q))}}]]

\* what the sink has to write for page q
ExpectedKeys(q) == ExpectedTable[cfg][q]

\* C3: a fetcher that abandons a page is back at its receive loop, and every
\* value due from a successfully fetched page is eventually written,
\* whatever happened to the other pages
C3_FailedPageHarmless ==
    /\ [][\A i \in DOMAIN fetcher :
            fetcher[i].pc = "sleep" /\ fetcher'[i].pc \notin {"sleep", "attempt"}
                => fetcher'[i].pc = "recv"]_vars
    /\ \A q \in PageIdx : PageOk(q) ~> (ExpectedKeys(q) \subseteq Range(written))

\* C3 failing state: one fetcher abandoned page 0 and went on to fetch page
\* 1; reading the body of page 1 failed after its first line, Run has
\* returned and values due from the lines of page 1 are not written
C3_LinesNeverWritten ==
    /\ Completed
    /\ PageAbandoned(0) /\ PageOk(1)
    /\ hist.taken[0] = hist.taken[1]
    /\ hist.sent[1] = 1
    /\ ~(ExpectedKeys(1) \subseteq Range(written))

\* the response body has no non-blank line
BlankBody ==
    /\ ~resp.err
    /\ \A k \in 1..Len(resp.body) : \A n \in 1..Len(resp.body[k]) : resp.body[k][n] = " "

\* C4: when the page-count response has no non-blank line, no fetcher,
\* processor or sink is started and nothing is written; Run returns nil with
\* zero pages and with the output file, if configured, closed
C4_ZeroPagesNoOp ==
    BlankBody =>
        /\ fetcher = <<>> /\ worker = <<>> /\ printer = "idle"
        /\ written = <<>>
        /\ hist = NoHist
        /\ run.pc = "returned" =>
              /\ ~run.err
              /\ run.pages = 0
              /\ outFile = IF cfg.OutputFile THEN "closed" ELSE "none"

\* C4 witness: Run returned on a body of blank lines, with a file configured
C4_Witness ==
    /\ BlankBody
    /\ Len(resp.body) > 0
    /\ cfg.OutputFile
    /\ run.pc = "returned"

\* C5: a page gets at most maxRetries attempts, all by the fetcher that took
\* it, none after a successful one, and it is enqueued at most once
C5_BoundedRetry ==
    \A q \in PageIdx :
        /\ Len(hist.attempts[q]) <= maxRetries
        /\ \A k \in 1..Len(hist.attempts[q]) :
              /\ hist.attempts[q][k].by = hist.attempts[q][1].by
              /\ hist.taken[q] = <<hist.attempts[q][k].by>>
              /\ k < Len(hist.attempts[q]) => ~hist.attempts[q][k].ok
        /\ hist.enq[q] <= 1

\* C5 witness: a page succeeded on its third attempt and the run went on
C5_Witness ==
    /\ Completed
    /\ \E q \in PageIdx : Len(hist.attempts[q]) = maxRetries /\ PageOk(q)

\* C6: the queues are closed once each in the order pageJobs, jobs,
\* resultsCh; jobs only after every fetcher exited, resultsCh only after
\* every worker exited; no send or close ever hits a closed queue
C6_CloseOrder ==
    /\ ~hist.panicked
    /\ hist.closes \in {<<>>, <<"pageJobs">>, <<"pageJobs", "jobs">>,
                        <<"pageJobs", "jobs", "resultsCh">>}
    /\ jobs.closed => \A i \in DOMAIN fetcher : fetcher[i].pc = "done"
    /\ resultsCh.closed => \A j \in DOMAIN worker : worker[j].pc = "done"
    /\ Completed => Len(hist.closes) = 3

\* C6 witness: a run that wrote output returned with all three queues closed
C6_Witness ==
    /\ Completed
    /\ written # <<>>
    /\ pageJobs.closed /\ jobs.closed /\ resultsCh.closed

\* C8: every page index below the page count is enqueued exactly once and
\* received by exactly one fetcher, which alone attempts it; none is skipped
C8_EachPageOnce ==
    \A q \in PageIdx :
        /\ hist.enq[q] <= 1
        /\ Len(hist.taken[q]) <= hist.enq[q]
        /\ q >= run.pages => hist.enq[q] = 0
        /\ pageJobs.closed /\ q < run.pages => hist.enq[q] = 1
        /\ jobs.closed /\ q < run.pages => Len(hist.taken[q]) = 1
        /\ \A k \in 1..Len(hist.attempts[q]) :
              hist.taken[q] = <<hist.attempts[q][k].by>>

\* C8 witness: two fetchers, two pages, each fetcher took one of them
C8_Witness ==
    /\ Completed
    /\ run.pages = 2
    /\ Len(hist.taken[0]) = 1 /\ Len(hist.taken[1]) = 1
    /\ hist.taken[0] # hist.taken[1]

\* C7: with subdomain mode and an empty base domain the run is a no-op: the
\* sink writes nothing, Run returns without error, and until it has returned
\* some goroutine can always take a step
C7_IdleSinkRunReturns ==
    IdleTable[cfg] /\ ~resp.err =>
        /\ written = <<>>
        /\ run.pc = "returned" => ~run.err
        /\ run.pc # "returned" => ENABLED Next

\* C7 failing state: the idle sink has returned, a worker holds a value it
\* cannot send, Run waits, and no goroutine can take a step
C7_Stuck ==
    /\ IdleTable[cfg] /\ ~resp.err
    /\ printer = "done"
    /\ written = <<>>
    /\ \E j \in DOMAIN worker : worker[j].pc = "send"
    /\ Len(resultsCh.buf) = ResultsCap
    /\ run.pc \in {"enqueue", "waitFetch", "waitWorkers"}
    /\ ~ENABLED Next

\* C9: no attempt begins once ctx is cancelled: not the first attempt of a
\* page, not a retry
C9_NoAttemptAfterCancel ==
    \A q \in PageIdx : \A k \in 1..Len(hist.attempts[q]) : ~hist.attempts[q][k].late

\* C9 failing state: a second or third attempt began under a cancelled ctx
C9_LateRetry ==
    \E q \in PageIdx : \E k \in 2..Len(hist.attempts[q]) : hist.attempts[q][k].late

\* processLine ran in no-query mode: no higher-priority flag, no filter
NoQueryRan ==
    /\ pl.done
    /\ cfg.NoQuery /\ ~cfg.OnlyQuery /\ ~cfg.OnlyQueryKeys
    /\ cfg.ExtList = {}
    /\ TrimSpace(pl.line) # <<>>

\* C10: in no-query mode a line that url.Parse rejects yields no value, and
\* a line it accepts yields one value, a URL without query
C10_NoQueryDropsUnparsable ==
    NoQueryRan =>
        IF ParseURL(TrimSpace(pl.line)).err
        THEN pl.out = <<>>
        ELSE Len(pl.out) = 1 /\ ParseURL(pl.out[1]).RawQuery = <<>>

\* C10 failing state: no-query mode passed a line through that url.Parse
\* rejects
C10_RawPassedThrough ==
    /\ NoQueryRan
    /\ ParseURL(TrimSpace(pl.line)).err
    /\ pl.out = <<TrimSpace(pl.line)>>

\* the first non-blank line is a non-negative integer
NonNegInt(s) == s # <<>> /\ \A i \in 1..Len(s) : s[i] \in DecDigits

\* C11: once the page count is resolved from a body with a non-blank line,
\* it is the parsed value when that line is a non-negative integer (one an
\* int holds: there is no parsed value otherwise) and 1 for every other
\* line, so it is never negative
C11_FallbackOnePage ==
    run.pc # "start" /\ ~run.err /\ firstNonBlank(resp.body) # <<>> =>
        /\ run.pages >= 0
        /\ run.pages = IF /\ NonNegInt(firstNonBlank(resp.body))
                          /\ ~outOfRange(FALSE, firstNonBlank(resp.body))
                       THEN DecVal(firstNonBlank(resp.body)) ELSE 1

\* C11 failing state: the pipeline runs with a negative page count
C11_NegativePages ==
    /\ run.pages < 0
    /\ fetcher # <<>> /\ worker # <<>>
    /\ pageJobs.closed

\* C12: when the page-count request fails, Run returns an error; no queue
\* is used, no fetcher, processor or sink is started, nothing is written
C12_TransportErrorAborts ==
    resp.err =>
        /\ run.pc \in {"start", "returned"}
        /\ run.pc = "returned" => run.err
        /\ fetcher = <<>> /\ worker = <<>> /\ printer = "idle"
        /\ pageJobs = EmptyChan /\ jobs = EmptyChan /\ resultsCh = EmptyChan
        /\ hist = NoHist
        /\ written = <<>> /\ pagesCompleted = 0

\* C12 witness: Run returned the error of the failed request
C12_Witness ==
    /\ resp.err
    /\ run.pc = "returned" /\ run.err
    /\ written = <<>>

\* the printer receives a value in this step
SinkTakes == printer = "recv" /\ Len(resultsCh'.buf) < Len(resultsCh.buf)

\* the host of a received value as the claim words it: lower-cased, its
\* port removed; "" when the value is no URL
ClaimHost(v) ==
    IF ParseURL(v).err THEN <<>>
    ELSE ToLower(SubSeq(ParseURL(v).Host, 1,
                        IF Contains(ParseURL(v).Host, ":")
                        THEN Index(ParseURL(v).Host, ":") - 1
                        ELSE Len(ParseURL(v).Host)))

\* h is a strict subdomain of the base domain b
UnderBase(h, b) == HasSuffix(h, <<".">> \o ToLower(b)) /\ h # ToLower(b)

\* C13: in subdomains mode with a base domain, every written value is a
\* lower-cased host without port that ends with "." and the lower-cased
\* base domain and differs from it; a received URL adds its host when the
\* host is such a subdomain and not yet written, and adds nothing otherwise
\* (host equal to the base domain, or ending with it without the dot)
C13_StrictSubdomainsOnly ==
    /\ [](cfg.Subs =>
            \A k \in 1..Len(written) :
                /\ written[k] = ToLower(written[k])
                /\ ~Contains(written[k], ":")
                /\ UnderBase(written[k], NormalizeBaseDomain(cfg)))
    /\ [][cfg.Subs /\ SinkTakes =>
            written' = IF /\ UnderBase(ClaimHost(Head(resultsCh.buf)), NormalizeBaseDomain(cfg))
                          /\ ClaimHost(Head(resultsCh.buf)) \notin Range(written)
                       THEN Append(written, ClaimHost(Head(resultsCh.buf)))
                       ELSE written]_vars

\* C13 witness: base domain b.c; the sink drained the queue and wrote
\* a.b.c, from the value with host A.b.c:8, and nothing else
C13_Witness ==
    /\ cfg.Subs /\ cfg.URLPattern = PatBC
    /\ printer = "done"
    /\ written = << <<"a", ".", "b", ".", "c">> >>

\* the positions where the segments of path p begin
SegStarts(p) == {i \in 1..(Len(p) + 1) : i = 1 \/ p[i - 1] = "/"}

\* the segment of p that begins at i, as it stands or trimmed
SegAt(p, i, trim) ==
    IF trim
    THEN TrimSpace(SubSeq(p, i, (CHOOSE j \in i..(Len(p) + 1) :
                                    /\ j = Len(p) + 1 \/ p[j] = "/"
                                    /\ \A m \in i..(j - 1) : p[m] # "/") - 1))
    ELSE SubSeq(p, i, (CHOOSE j \in i..(Len(p) + 1) :
                          /\ j = Len(p) + 1 \/ p[j] = "/"
                          /\ \A m \in i..(j - 1) : p[m] # "/") - 1)

\* where segment sg first begins in p
FirstPos(p, sg, trim) ==
    CHOOSE i \in SegStarts(p) :
        SegAt(p, i, trim) = sg
        /\ \A m \in SegStarts(p) : SegAt(p, m, trim) = sg => i <= m

\* new extends old by exactly the non-empty segments of p not in old, each
\* once, in the order of their first occurrence in p
AddsSegments(p, old, new, trim) ==
    /\ Len(new) >= Len(old)
    /\ SubSeq(new, 1, Len(old)) = old
    /\ {new[k] : k \in (Len(old) + 1)..Len(new)}
          = {SegAt(p, i, trim) : i \in SegStarts(p)} \ ({<<>>} \cup Range(old))
    /\ \A a, b \in (Len(old) + 1)..Len(new) :
          a < b => FirstPos(p, new[a], trim) < FirstPos(p, new[b], trim)

\* C14 as stated: in extract-paths mode every received URL adds to the
\* output the non-empty segments of its path, split on "/", that were not
\* written before, each once, in order of first occurrence
C14_SegmentsAsSplit ==
    [][cfg.ExtractPaths /\ ~cfg.Subs /\ SinkTakes =>
          IF ParseURL(Head(resultsCh.buf)).err
          THEN written' = written
          ELSE AddsSegments(ParseURL(Head(resultsCh.buf)).Path, written, written', FALSE)]_vars

\* C14 amended: the same of the segments after each is trimmed of white
\* space, a segment of white space counting as empty
C14_SegmentsOnceInOrder ==
    [][cfg.ExtractPaths /\ ~cfg.Subs /\ SinkTakes =>
          IF ParseURL(Head(resultsCh.buf)).err
          THEN written' = written
          ELSE AddsSegments(ParseURL(Head(resultsCh.buf)).Path, written, written', TRUE)]_vars

\* C14 witness: the sink drained the queue and wrote x then 8, the segments
\* of the path /x/8/x/, whose second x and empty segments are suppressed
C14_Witness ==
    /\ cfg.ExtractPaths
    /\ printer = "done"
    /\ written = << <<"x">>, <<"8">> >>

\* the positions where the non-empty pairs of query q begin
PairStarts(q) ==
    {i \in 1..Len(q) : q[i] \notin {"&", ";"} /\ (i = 1 \/ q[i - 1] \in {"&", ";"})}

\* the key of the pair of q that begins at i: up to its first "=" or its end
KeyAt(q, i) ==
    SubSeq(q, i, (CHOOSE j \in i..(Len(q) + 1) :
                     /\ j = Len(q) + 1 \/ q[j] \in {"&", ";", "="}
                     /\ \A m \in i..(j - 1) : q[m] \notin {"&", ";", "="}) - 1)

\* the keys of the pairs that begin at the positions S, in their order
KeysFrom(q, S) ==
    [k \in 1..Cardinality(S) |->
        KeyAt(q, CHOOSE i \in S : Cardinality({m \in S : m <= i}) = k)]

\* the keys the claim has a line emit: one per non-empty pair of its query
ClaimKeys(line) ==
    IF ParseURL(line).err THEN <<>>
    ELSE KeysFrom(ParseURL(line).RawQuery, PairStarts(ParseURL(line).RawQuery))

\* the keys of a line travel to the output in order: the worker that takes
\* the line holds keys(line), every send appends the first value a worker
\* holds to the results queue, and the printer takes the head of the queue
\* and writes it unless it was written before
KeysInOrder ==
    /\ \A j \in DOMAIN worker :
          /\ worker[j].pc = "recv" /\ worker'[j] # worker[j] /\ jobs.buf # <<>>
                => worker'[j].outs = ClaimKeys(Head(jobs.buf))
          /\ worker[j].pc = "send" /\ worker'[j] # worker[j]
                => /\ resultsCh'.buf = Append(resultsCh.buf, Head(worker[j].outs))
                   /\ worker'[j].outs = Tail(worker[j].outs)
    /\ SinkTakes =>
          /\ resultsCh'.buf = Tail(resultsCh.buf)
          /\ written' = IF Head(resultsCh.buf) \in Range(written) THEN written
                        ELSE Append(written, Head(resultsCh.buf))

\* C15: in only-query-keys mode a line emits one key per non-empty pair of
\* its query, duplicates included, in order; the keys reach the sink in
\* that order and the first occurrence of each is written
C15_KeyPerPair ==
    [][cfg.OnlyQueryKeys /\ ~cfg.OnlyQuery => KeysInOrder]_vars

\* C15 failing state: in only-query-keys mode a worker took LineB, whose
\* query k=2&p&=1&k has four non-empty pairs, and holds three keys: the
\* empty key of the pair "=1" is missing
C15_EmptyKeyDropped ==
    /\ cfg.OnlyQueryKeys /\ ~cfg.OnlyQuery
    /\ ClaimKeys(LineB) = << <<"k">>, <<"p">>, <<>>, <<"k">> >>
    /\ \E j \in DOMAIN worker :
          worker[j].pc = "send" /\ worker[j].outs = << <<"k">>, <<"p">>, <<"k">> >>

\* the path the filter is applied to: the URL's path, or the whole line
\* when it does not parse or has no path
FilterPath(line) ==
    IF ~ParseURL(line).err /\ ParseURL(line).Path # <<>>
    THEN ParseURL(line).Path ELSE line

\* c with only its output-mode flags, no filter
NoFilter(c) == [c EXCEPT !.ExtList = {}, !.IncludeMode = FALSE]

\* C16: the filter comes before the transform: with a matcher, a line whose
\* path fails the filter (no match in include mode, a match in exclude
\* mode) yields nothing in any output mode, and a line that passes yields
\* what its transform yields; without a matcher no line is dropped (in
\* default mode every non-blank line yields itself)
C16_FilterBeforeTransform ==
    pl.done /\ TrimSpace(pl.line) # <<>> =>
        /\ cfg.ExtList # {} =>
              IF cfg.IncludeMode = ExtMatch(cfg.ExtList, FilterPath(TrimSpace(pl.line)))
              THEN pl.out = processLine(NoFilter(cfg), pl.line)
              ELSE pl.out = <<>>
        /\ cfg.ExtList = {} /\ ~cfg.OnlyQuery /\ ~cfg.OnlyQueryKeys /\ ~cfg.NoQuery =>
              pl.out = <<TrimSpace(pl.line)>>

\* C16 witness: include mode and only-query: the line with path a.b/x.PHP
\* matches php and its query is emitted
C16_Witness ==
    /\ pl.done
    /\ cfg.ExtList = {ExtPhp} /\ cfg.IncludeMode /\ cfg.OnlyQuery
    /\ FilterPath(TrimSpace(pl.line)) = <<"a", ".", "b", "/", "x", ".", "P", "H", "P">>
    /\ pl.out = << <<"&", "=", "1", "&", "k">> >>

\* c with at most one output-mode flag: the first set one in the order
\* only-query, only-query-keys, no-query
FirstFlagOnly(c) ==
    [c EXCEPT !.OnlyQueryKeys = @ /\ ~c.OnlyQuery,
              !.NoQuery = @ /\ ~c.OnlyQuery /\ ~c.OnlyQueryKeys]

\* C19: with several output-mode flags set a line emits what it emits with
\* only the flag of highest priority set: only-query, then only-query-keys,
\* then no-query, then default
C19_OneTransformByPriority ==
    pl.done => pl.out = processLine(FirstFlagOnly(cfg), pl.line)

\* C19 witness: all three flags set; LineA emits its raw query and nothing
\* else
C19_Witness ==
    /\ pl.done
    /\ cfg.OnlyQuery /\ cfg.OnlyQueryKeys /\ cfg.NoQuery
    /\ pl.line = LineA
    /\ pl.out = << <<"k", "=", "1">> >>

\* Run returned nil after it started the pipeline
PipelineRan == run.pc = "returned" /\ ~run.err /\ run.pages # 0

\* C18: with a file sink, when Run has returned from a started pipeline (the
\* results queue closed, the sink awaited), the file has been flushed, closed
\* and confirmed by the sink; the file changes state once only, in the
\* sink's last step, on the closed and drained queue, and nothing is written
\* afterwards
C18_FileSavedWhenDrained ==
    /\ cfg.OutputFile /\ PipelineRan => outFile = "saved"
    /\ outFile = "saved" =>
          printer = "done" /\ resultsCh.closed /\ resultsCh.buf = <<>>

\* C18 witness: subdomains mode with no base domain: Run has returned from
\* the pipeline, nothing is left on the queue, and the file is still open
C18_FileLeftOpen ==
    /\ cfg.OutputFile /\ cfg.Subs
    /\ PipelineRan
    /\ resultsCh.closed /\ resultsCh.buf = <<>>
    /\ printer = "done"
    /\ outFile = "open"

\* the attempts of page q so far
Attempts(q) == hist.attempts[q]

\* one of page q's attempts completed without transport error and with a
\* 2xx status
SomeAttemptOk(q) == \E k \in 1..Len(Attempts(q)) : Attempts(q)[k].ok

\* fetcher i gives up its page in this step, the final attempt having
\* returned a non-2xx status without a transport error
AbandonsOnStatus(i) ==
    /\ fetcher[i].pc = "sleep" /\ fetcher'[i].pc # "sleep"
    /\ fetcher[i].attempt = maxRetries
    /\ ~fetcher[i].ierr

\* C20: a fetcher scans the body of a page only if one of the page's
\* attempts succeeded, and raw lines are enqueued by scanning fetchers only;
\* the step that ends a page whose final attempt returned a non-2xx status
\* puts no line on jobs, takes the fetcher back to its range loop and adds
\* one to the progress counter
C20_ScanOnlyAfterSuccess ==
    /\ [](\A i \in DOMAIN fetcher :
             fetcher[i].pc \in {"scan", "send"} => SomeAttemptOk(fetcher[i].page))
    /\ [][Len(jobs'.buf) > Len(jobs.buf) =>
             \E i \in DOMAIN fetcher :
                 fetcher[i].pc = "send" /\ SomeAttemptOk(fetcher[i].page)]_vars
    /\ [][\A i \in DOMAIN fetcher :
             AbandonsOnStatus(i) =>
                 /\ fetcher'[i].pc = "recv"
                 /\ jobs' = jobs
                 /\ pagesCompleted' = pagesCompleted + 1]_vars

\* C20 witness: Run has returned; page 0 has lines, all its maxRetries
\* attempts failed, the last one by its status, the page counted and nothing
\* written
C20_Witness ==
    /\ PipelineRan
    /\ PageLines(0) # <<>>
    /\ Len(Attempts(0)) = maxRetries
    /\ ~SomeAttemptOk(0)
    /\ hist.nilOnly[0]
    /\ pagesCompleted = run.pages
    /\ written = <<>>

\* the exclude list the flags ask for: the built-in list with
\* -exclude-defaults or with an empty -exclude-ext, nothing without
\* -exclude-ext, the given value otherwise
AskedExclude ==
    IF cfg.ExcludeDefaults \/ (cfg.ExcludeProvided /\ cfg.ExcludeExt = <<>>)
    THEN defaultExclude
    ELSE IF ~cfg.ExcludeProvided THEN <<>>
    ELSE cfg.ExcludeExt

\* C17: the effective exclude list is the one the flags ask for; the Runner
\* built from the flags is in include mode over the include list when that
\* list is not empty, whatever the exclude flags, and otherwise in exclude
\* mode over the effective exclude list
C17_EffectiveLists ==
    /\ EffectiveExclude(cfg) = AskedExclude
    /\ run.pc = "start" =>
          IF cfg.IncludeExt # <<>>
          THEN cfg.IncludeMode /\ cfg.ExtList = ExtTokens(cfg.IncludeExt)
          ELSE ~cfg.IncludeMode /\ cfg.ExtList = ExtTokens(AskedExclude)

\* C17 witness: -exclude-ext passed with an empty value and no include list:
\* the Runner excludes the built-in list
C17_Witness ==
    /\ run.pc = "start"
    /\ ~cfg.ExcludeDefaults /\ cfg.ExcludeProvided /\ cfg.ExcludeExt = <<>>
    /\ cfg.IncludeExt = <<>>
    /\ ~cfg.IncludeMode
    /\ <<"7", "z">> \in cfg.ExtList /\ <<"j", "s">> \in cfg.ExtList
    /\ Cardinality(cfg.ExtList) = 26

\* every non-blank line of page q has been pushed onto jobs after a
\* successful attempt
FullySubmitted(q) ==
    SomeAttemptOk(q) /\ hist.sent[q] = Len(PageLines(q)) /\ ~hist.cut[q]

\* C21: the progress counter is at most the number of pages that are
\* abandoned or whose non-blank lines have all been pushed onto the raw-line
\* queue
C21_CountedAfterSubmitted ==
    pagesCompleted
        <= Cardinality({q \in PageIdx : PageAbandoned(q) \/ FullySubmitted(q)})

\* C21 failing state: the one page of a run was fetched and is counted,
\* its fetcher is back at the range loop, and only the first of its lines
\* was pushed: reading the body failed after that line
C21_CountedUnsubmitted ==
    /\ run.pages = 1
    /\ pagesCompleted = 1
    /\ PageOk(0)
    /\ \A i \in DOMAIN fetcher : fetcher[i].pc \in {"recv", "done"}
    /\ hist.sent[0] = 1
    /\ hist.sent[0] < Len(PageLines(0))

\* a fetcher is at work on page q: inside the body of its range loop
Busy(q) ==
    \E i \in DOMAIN fetcher :
        fetcher[i].pc \in {"check", "attempt", "sleep", "scan", "send"}
            /\ fetcher[i].page = q

\* page q was taken to completion: attempted, and its fetcher has left it
Finished(q) == Attempts(q) # <<>> /\ ~Busy(q)

\* C22: the progress counter never decreases, grows by one in a step and
\* then one page is newly finished, equals the number of finished pages
\* (one increment per page, on success or on abandonment), and never
\* exceeds the page count
C22_CounterExact ==
    /\ [][\/ pagesCompleted' = pagesCompleted
          \/ /\ pagesCompleted' = pagesCompleted + 1
             /\ \E q \in PageIdx :
                   /\ ~Finished(q) /\ Finished(q)'
                   /\ \A r \in PageIdx \ {q} : Finished(r)' = Finished(r)]_vars
    /\ [](pagesCompleted = Cardinality({q \in PageIdx : Finished(q)}))
    /\ [](pagesCompleted <= run.pages)

\* C22 failing state: the page-count body is "-1", the pipeline runs over a
\* page count of -1 and the counter, 0, is above it
C22_AbovePageCount ==
    /\ run.pc = "returned" /\ ~run.err
    /\ run.pages = -1
    /\ pagesCompleted = 0

\* max(1, n)
AtLeastOne(n) == IF n < 1 THEN 1 ELSE n

\* C23: whatever the configured concurrencies, zero and negative ones
\* included, the run does not panic, a started pipeline has max(1, configured)
\* fetchers and max(1, configured) processors, and (the idle subdomain sink
\* aside) some goroutine can take a step until Run has returned
C23_AtLeastOneWorkerEach ==
    /\ ~hist.panicked /\ run.pc # "panic"
    /\ printer # "idle" =>
          /\ Len(fetcher) = AtLeastOne(cfg.PageWorkers)
          /\ Len(worker) = AtLeastOne(cfg.Workers)
    /\ ~IdleTable[cfg] /\ run.pc # "returned" => ENABLED Next

\* C23 failing state: the fetch concurrency is -1, make(chan int, -1) has
\* panicked, and no queue and no goroutine exists
C23_MakeChanPanicked ==
    /\ cfg.PageWorkers = -1
    /\ run.pages > 0
    /\ run.pc = "panic"
    /\ fetcher = <<>> /\ worker = <<>> /\ printer = "idle"

\* the values of the received value res that the dedup lets through
Survivors(res) == Range(CandidateTable[cfg][res]) \ seen

\* C24: while the sink is at its queue its buffer holds nothing, and the
\* step that takes a value appends every survivor of the dedup to the
\* flushed output, each as one line of its own, and nothing else
C24_FlushedBeforeNextReceive ==
    /\ [](printer = "recv" => bufw = <<>>)
    /\ [][SinkTakes =>
            /\ Len(written') = Len(written) + Cardinality(Survivors(Head(resultsCh.buf)))
            /\ SubSeq(written', 1, Len(written)) = written
            /\ Range(written') = Range(written) \cup Survivors(Head(resultsCh.buf))]_vars

\* C24 witness: the sink waits on the open, empty queue, two values are
\* written and the buffer is empty
C24_Witness ==
    /\ printer = "recv"
    /\ resultsCh.buf = <<>> /\ ~resultsCh.closed
    /\ Len(written) >= 2
    /\ bufw = <<>>

\* C25: the k-th attempt of a page is followed by a sleep of k seconds when
\* it failed and by none when it succeeded; a fetcher goes from a failed
\* attempt to its sleep and from a successful one to the scanner; after the
\* sleep it tries again, or, after the sleep that follows the last attempt,
\* abandons the page
C25_LinearBackoff ==
    /\ [](\A q \in PageIdx : \A k \in 1..Len(Attempts(q)) :
             Attempts(q)[k].sleep = IF Attempts(q)[k].ok THEN 0 ELSE k)
    /\ [][\A i \in DOMAIN fetcher :
             /\ fetcher[i].pc = "attempt" /\ fetcher'[i] # fetcher[i] =>
                   LET a == Attempts(fetcher[i].page)'
                   IN  fetcher'[i].pc = IF a[Len(a)].ok THEN "scan" ELSE "sleep"
             /\ fetcher[i].pc = "sleep" /\ fetcher'[i] # fetcher[i] =>
                   IF fetcher[i].attempt < maxRetries
                   THEN /\ fetcher'[i].pc = "attempt"
                        /\ fetcher'[i].attempt = fetcher[i].attempt + 1
                   ELSE /\ fetcher'[i].pc = "recv"
                        /\ Len(Attempts(fetcher[i].page)) = maxRetries]_vars

\* C25 witness: page 0 was abandoned after sleeps of 1, 2 and 3 seconds,
\* page 1 succeeded at its second attempt after one sleep of 1 second
C25_Witness ==
    /\ Finished(0) /\ Finished(1)
    /\ [k \in 1..Len(Attempts(0)) |-> Attempts(0)[k].sleep] = <<1, 2, 3>>
    /\ [k \in 1..Len(Attempts(1)) |-> Attempts(1)[k].sleep] = <<1, 0>>

\* the inputs C26 and C27 speak of: the page-count request is answered with
\* one page or more, and the sink is not the idle subdomain sink (whether
\* Run gets as far as its pipeline is not part of it)
RunsPipeline ==
    /\ ~resp.err /\ PageCountTable[resp] > 0
    /\ ~IdleTable[cfg]

\* Run has returned, the three queues are closed and empty, and every
\* goroutine has exited
AllDone ==
    /\ run.pc = "returned"
    /\ \A ch \in {pageJobs, jobs, resultsCh} : ch.closed /\ ch.buf = <<>>
    /\ \A i \in DOMAIN fetcher : fetcher[i].pc = "done"
    /\ \A j \in DOMAIN worker : worker[j].pc = "done"
    /\ printer = "done"

\* C26: a run that is not cancelled, over N > 0 pages, with a sink other
\* than the idle subdomain sink, eventually has Run returned with all three
\* queues closed and empty and every goroutine exited, whatever the numbers
\* of fetchers and processors, the capacities and the failures of its pages
C26_RunTerminates == RunsPipeline => <>[]AllDone

\* C26 failing state: a run over one page or more with a receiving sink and
\* -page-workers -1 has stopped in the panic of make(chan int, -1): Run has
\* not returned and no step is left
C26_NeverReturns ==
    /\ RunsPipeline
    /\ cfg.PageWorkers < 0
    /\ run.pc = "panic"
    /\ fetcher = <<>> /\ ~pageJobs.closed
    /\ ~ENABLED Next

\* C27: in a run that has been cancelled, Run has returned or some goroutine
\* can still take a step: the enqueue loop is never left waiting for a
\* receiver that no longer exists
C27_CancelledRunReturns ==
    cancelled /\ RunsPipeline /\ run.pc # "returned" => ENABLED NextCancel

\* C27 failing state: ctx is cancelled, every fetcher has returned, a page
\* index is still to be sent, the page queue takes no more, and nothing can
\* take a step
C27_EnqueueBlocked ==
    /\ cancelled /\ RunsPipeline
    /\ run.pc = "enqueue" /\ run.p < run.pages
    /\ \A i \in DOMAIN fetcher : fetcher[i].pc = "done"
    /\ ~CanSend(pageJobs, cfg.PageWorkers)
    /\ ~ENABLED NextCancel

\* a step that changes the raw-line queue is a push by a fetcher of the token
\* it holds (the line, or what was read of it), or the receive of the head
\* by one processor that was waiting and now holds the line's derived values
JobsInTransit ==
    jobs'.buf # jobs.buf =>
        \/ \E i \in DOMAIN fetcher :
              /\ fetcher[i].pc = "send"
              /\ jobs'.buf = Append(jobs.buf, held(fetcher[i]))
        \/ /\ jobs.buf # <<>>
           /\ jobs'.buf = Tail(jobs.buf)
           /\ \E j \in DOMAIN worker :
                 /\ worker[j].pc = "recv"
                 /\ worker'[j].outs = processLine(cfg, Head(jobs.buf))
                 /\ \A k \in DOMAIN worker \ {j} : worker'[k] = worker[k]

\* a step that changes the results queue is a push by one processor of the
\* first value it holds, or the receive of the head by the sink
ResultsInTransit ==
    resultsCh'.buf # resultsCh.buf =>
        \/ \E j \in DOMAIN worker :
              /\ worker[j].pc = "send"
              /\ resultsCh'.buf = Append(resultsCh.buf, Head(worker[j].outs))
              /\ worker'[j].outs = Tail(worker[j].outs)
              /\ \A k \in DOMAIN worker \ {j} : worker'[k] = worker[k]
        \/ /\ resultsCh.buf # <<>>
           /\ resultsCh'.buf = Tail(resultsCh.buf)
           /\ printer = "recv"
           /\ seen' = seen \cup Range(sinkCandidates(cfg, Head(resultsCh.buf)))

\* a fetcher that moves on in its body has pushed its line, a processor that
\* takes up values has taken the head off the raw-line queue, a processor
\* that is rid of a value has pushed it, and a sink that saw a value has
\* taken the head off the results queue
NoneCopiedOrDropped ==
    /\ \A i \in DOMAIN fetcher :
          fetcher[i].pc = "send" /\ fetcher'[i] # fetcher[i] =>
              jobs'.buf = Append(jobs.buf, held(fetcher[i]))
    /\ \A j \in DOMAIN worker :
          /\ worker[j].pc = "recv" /\ worker'[j].pc = "send" =>
                jobs.buf # <<>> /\ jobs'.buf = Tail(jobs.buf)
          /\ worker[j].pc = "send" /\ worker'[j] # worker[j] =>
                resultsCh'.buf = Append(resultsCh.buf, Head(worker[j].outs))
    /\ seen' # seen \/ written' # written =>
          resultsCh.buf # <<>> /\ resultsCh'.buf = Tail(resultsCh.buf)

\* C28: lines and values move through the queues one receiver at a time,
\* each received once, and when the run has come to its end (Run returned,
\* or no goroutine able to take a step) none is left in a queue
C28_NothingLostInTransit ==
    /\ [][JobsInTransit /\ ResultsInTransit /\ NoneCopiedOrDropped]_vars
    /\ [](~ENABLED Next => jobs.buf = <<>> /\ resultsCh.buf = <<>>)

\* C28 failing state: the idle subdomain sink has returned; the run has come
\* to its end and a value a processor pushed is on the results queue, which
\* nobody receives from
C28_ValueNeverReceived ==
    /\ IdleTable[cfg]
    /\ printer = "done"
    /\ resultsCh.buf # <<>>
    /\ ~ENABLED Next

\* the fetchers that hold a response they are scanning
Scanning == {i \in DOMAIN fetcher : fetcher[i].pc \in {"scan", "send"}}

\* C29: the response bodies that are open are those of the fetchers at the
\* scanner, one each: the body of a failed attempt is closed before the
\* sleep, the body of a scanned page before the fetcher takes the next
\* page; and no Close finds its body closed already
C29_BodiesClosedOnce ==
    /\ hist.open = Cardinality(Scanning)
    /\ ~hist.badClose

\* C29 failing state: a first attempt at page 0 returned a response together
\* with an error; the retry loop closed the body the client had closed, and
\* the fetcher is at its sleep
C29_ClosedTwice ==
    /\ hist.badClose
    /\ hist.open = 0
    /\ Len(Attempts(0)) = 1 /\ ~PageOk(0)
    /\ \E i \in DOMAIN fetcher :
          fetcher[i].pc = "sleep" /\ fetcher[i].page = 0 /\ fetcher[i].ierr

====
